---- MODULE Spec2Model ----
(***************************************************************************)
(* Unified lead identity resolution and funnel analysis of                 *)
(* workspace/weekly-marketing-report.js.                                   *)
(*                                                                         *)
(* Strings that the code only compares, stores or measures are TLA+        *)
(* strings; strings that the code scans character by character are tuples  *)
(* of one-character strings.  A JavaScript null/undefined that the code    *)
(* only tests for truthiness is the empty string.  An object reference to  *)
(* a lead (or to a deduplicated RSVP entry) is its 1-based position in the *)
(* list that owns it: entries are only ever appended.                      *)
(***************************************************************************)
EXTENDS Integers, Sequences, FiniteSets, TLC

VARIABLES
    dom,          \* the value sets the input rows of this run are drawn from
    pc,           \* position of the run
    n,            \* number of raw input rows consumed so far
    rsvpByPhone,  \* fetchAllClassRSVPs: byPhone
    rsvpByEmail,  \* fetchAllClassRSVPs: byEmail
    deduped,      \* fetchAllClassRSVPs: deduped (classRSVPs.unique)
    rowSources,   \* history: per deduped entry, the channels of the rows merged into it
    rowDates,     \* history: per deduped entry, the timestamps of the rows merged into it
    leads,        \* buildUnifiedLeadList: leads
    byPhone,      \* buildUnifiedLeadList: byPhone
    byEmail,      \* buildUnifiedLeadList: byEmail
    classPos,     \* buildUnifiedLeadList: position of the loop over classRSVPs.unique
    last,         \* the record folded by the latest step and the lead it resolved to
    folded,       \* history: the raw records buildUnifiedLeadList has folded so far
    contrib,      \* history: per lead, the channels of the raw rows that contributed
    seenDates,    \* history: per lead, the date strings of the raw rows that contributed
    foldedTo,     \* history: <<normalized phone, lead>> of each record folded with a valid phone
    ehrPatients,         \* matchLeadsToEHR: the EHR candidate rows
    today,               \* matchLeadsToEHR: today, as a day number
    matchPos,            \* matchLeadsToEHR: position of the loop over unifiedLeads
    matchedPatientIds,   \* matchLeadsToEHR: matchedPatientIds
    thisWeekPatientIds,  \* matchLeadsToEHR: thisWeekPatientIds
    matchBy,             \* matchLeadsToEHR: matchByPhone, matchByEmail, matchByName
    bySource,            \* matchLeadsToEHR: bySource
    classStats,          \* matchLeadsToEHR: classStats
    sequencing,          \* matchLeadsToEHR: sequencing
    resolved,            \* matchLeadsToEHR: patient and matchTier of the latest iteration
    claims,              \* history: the <<lead, patient_id>> pairs recorded as matches
    matchOut,            \* matchLeadsToEHR: the returned statistics
    submissions,         \* parseFormResponses: submissions
    expLeads,            \* parseExpectingParents: leads
    registrationFunnel,  \* the result of analyzeRegistrationFunnel
    expectingFunnel,     \* the result of analyzeExpectingFunnel
    rawPhone,            \* normalizePhone: raw, a string of characters
    normalized,          \* normalizePhone: the returned string
    classifyArgs,        \* a classifier: the arguments of the call
    classified,          \* a classifier: the returned value
    clock,               \* the system clock: what new Date() returns now
    nows                 \* history: the clock values the decisions of the run have read

leadVars == <<dom, pc, n, rsvpByPhone, rsvpByEmail, deduped, rowSources, rowDates,
              leads, byPhone, byEmail, classPos, last, folded, contrib, seenDates, foldedTo>>

matchVars == <<ehrPatients, today, matchPos, matchedPatientIds, thisWeekPatientIds,
               matchBy, bySource, classStats, sequencing, resolved, claims, matchOut>>

funnelVars == <<submissions, expLeads, registrationFunnel, expectingFunnel>>

phoneVars == <<rawPhone, normalized>>

classifyVars == <<classifyArgs, classified>>

clockVars == <<clock, nows>>

vars == <<leadVars, matchVars, funnelVars, phoneVars, classifyVars, clockVars>>

----------------------------------------------------------------------------
(* Bounds *)

\* raw input rows consumed by one run of fetchAllClassRSVPs and buildUnifiedLeadList
MaxRecords == 3

\* unified leads and EHR rows handed to matchLeadsToEHR
MaxLeads == 2

MaxPatients == 2

\* rows of the registration sheet and of the expecting-parents tab, together
MaxFunnelRows == 3

\* characters that follow a sample phone number in the raw cell
MaxTrailing == 3

\* characters before and after a sample text in a cell handed to a classifier
MaxPad == 1

\* hours that pass while main waits for the sheets, the EHR queries and the ad platform
MaxWait == 2

----------------------------------------------------------------------------
(* Generic helpers *)

Range(s) == {s[i] : i \in 1..Len(s)}

\* Array.prototype.indexOf, 0-based, -1 when absent
IndexOf(s, x) ==
    IF \E i \in 1..Len(s) : s[i] = x
    THEN (CHOOSE i \in 1..Len(s) : s[i] = x /\ \A j \in 1..(i - 1) : s[j] /= x) - 1
    ELSE -1

\* if (!arr.includes(x)) arr.push(x)
PushUnique(s, x) == IF x \in Range(s) THEN s ELSE Append(s, x)

RECURSIVE PushAllUnique(_, _)
PushAllUnique(s, xs) ==
    IF xs = <<>> THEN s ELSE PushAllUnique(PushUnique(s, Head(xs)), Tail(xs))

\* Map.set(k, v)
MapSet(m, k, v) == [x \in DOMAIN m \cup {k} |-> IF x = k THEN v ELSE m[x]]

EmptyMap == [x \in {} |-> 0]

----------------------------------------------------------------------------
(* Dates.  An instant is a number of hours since 2026-01-00 00:00 (the code  *)
(* counts milliseconds); NaN is the invalid date and the null date.  All    *)
(* instants are taken in one time zone.                                     *)

NaN == -1

\* 24 * 60 * 60 * 1000 ms, in hours
DAY == 24

\* new Date(str) on the date strings of the input sets
NewDate(str) ==
    CASE str = "2026-01-05" -> 5 * DAY
      [] str = "2026-01-12" -> 12 * DAY
      [] str = "2026-01-19" -> 19 * DAY
      [] str = "1/5/2026" -> 5 * DAY
      [] str = "1/6/2026" -> 6 * DAY
      [] str = "1/12/2026" -> 12 * DAY
      [] str = "1/26/2026" -> 26 * DAY
      [] str = "12/30/2025" -> (-1) * DAY
      [] str = "12/21/2025" -> (-10) * DAY
      [] OTHER -> NaN

\* parseDateLoose on the date strings of the input sets: M/D/Y only
ParseDateLoose(str) ==
    CASE str = "1/5/2026" -> 5 * DAY
      [] str = "1/6/2026" -> 6 * DAY
      [] str = "12/30/2025" -> (-1) * DAY
      [] str = "12/21/2025" -> (-10) * DAY
      [] str = "1/12/2026" -> 12 * DAY
      [] str = "1/26/2026" -> 26 * DAY
      [] OTHER -> NaN

\* the time at which a run starts: the day of January 2026 and the hour of the day
RunDay == 20

RunHour == 9

Now == RunDay * DAY + RunHour

\* today.setUTCHours(0, 0, 0, 0)
Midnight(t) == (t \div DAY) * DAY

----------------------------------------------------------------------------
(* Unified lead model *)

ATTRIBUTION_PRIORITY ==
    <<"facebook_ad", "instagram", "google_search", "email_marketing",
      "employee_referral", "word_of_mouth", "website", "class_only", "unknown">>

\* const normPhone = phone && phone.length === 10 ? phone : null
NormPhone(phone) == IF phone /= "" /\ Len(phone) = 10 THEN phone ELSE ""

\* const normEmail = email || null
NormEmail(email) == email

\* faulty variant: the email index is never consulted
LookupExisting_PhoneOnly(bp, be, normPhone, normEmail) ==
    IF normPhone /= "" /\ normPhone \in DOMAIN bp THEN bp[normPhone] ELSE 0

\* faulty variant: the email index is consulted before the phone index
LookupExisting_EmailFirst(bp, be, normPhone, normEmail) ==
    IF normEmail /= "" /\ normEmail \in DOMAIN be THEN be[normEmail]
    ELSE IF normPhone /= "" /\ normPhone \in DOMAIN bp THEN bp[normPhone]
    ELSE 0

\* getOrCreate, lookup half: the existing entry, or 0 when there is none
LookupExisting(bp, be, normPhone, normEmail) ==
    IF normPhone /= "" /\ normPhone \in DOMAIN bp THEN bp[normPhone]
    ELSE IF normEmail /= "" /\ normEmail \in DOMAIN be THEN be[normEmail]
    ELSE 0

\* getOrCreate, the entry literal
NewEntry(normPhone, normEmail, name) ==
    [phone |-> normPhone, email |-> normEmail, name |-> name,
     sources |-> <<>>, attribution |-> "unknown", referralDetail |-> "",
     firstSeen |-> NaN, office |-> "", classesAttended |-> <<>>,
     registrationStatus |-> "", expectingStage |-> "",
     registrationTimestamp |-> ""]

\* getOrCreate: the lists after the call, the entry returned and whether it is new
GetOrCreate(ls, bp, be, phone, email, name) ==
    LET normPhone == NormPhone(phone)
        normEmail == NormEmail(email)
        existing == LookupExisting(bp, be, normPhone, normEmail)
        idx == Len(ls) + 1
    IN  IF existing /= 0
        THEN [leads |-> ls, byPhone |-> bp, byEmail |-> be,
              idx |-> existing, created |-> FALSE]
        ELSE [leads |-> Append(ls, NewEntry(normPhone, normEmail, name)),
              byPhone |-> IF normPhone /= "" THEN MapSet(bp, normPhone, idx) ELSE bp,
              byEmail |-> IF normEmail /= "" THEN MapSet(be, normEmail, idx) ELSE be,
              idx |-> idx, created |-> TRUE]

\* faulty variant: any known channel replaces the current attribution
UpdateAttribution_Always(entry, source, referralDetail) ==
    LET e1 == [entry EXCEPT !.sources = PushUnique(@, source)]
    IN  IF IndexOf(ATTRIBUTION_PRIORITY, source) >= 0
        THEN [e1 EXCEPT !.attribution = source,
                        !.referralDetail = IF referralDetail /= "" THEN referralDetail ELSE @]
        ELSE e1

\* updateAttribution
UpdateAttribution(entry, source, referralDetail) ==
    LET e1 == [entry EXCEPT !.sources = PushUnique(@, source)]
        currentPri == IndexOf(ATTRIBUTION_PRIORITY, e1.attribution)
        newPri == IndexOf(ATTRIBUTION_PRIORITY, source)
    IN  IF newPri >= 0 /\ (currentPri < 0 \/ newPri < currentPri)
        THEN [e1 EXCEPT !.attribution = source,
                        !.referralDetail = IF referralDetail /= "" THEN referralDetail ELSE @]
        ELSE e1

\* updateFirstSeen
UpdateFirstSeen(entry, dateStr) ==
    IF dateStr = "" THEN entry
    ELSE LET d == NewDate(dateStr)
         IN  IF d = NaN THEN entry
             ELSE IF entry.firstSeen = NaN \/ d < entry.firstSeen
                  THEN [entry EXCEPT !.firstSeen = d]
                  ELSE entry

\* if (!entry.name && x.name) entry.name = x.name
FillName(entry, name) ==
    IF entry.name = "" /\ name /= "" THEN [entry EXCEPT !.name = name] ELSE entry

\* if (x.office && !entry.office) entry.office = x.office
FillOffice(entry, office) ==
    IF office /= "" /\ entry.office = "" THEN [entry EXCEPT !.office = office] ELSE entry

\* body of the loop over fbLeads
FoldFBEntry(entry, fb) ==
    UpdateFirstSeen(UpdateAttribution(entry, "facebook_ad", "Facebook Lead Ad"), fb.date)

\* rsvp.referralSource !== 'unknown' ? rsvp.referralSource : 'class_only'
ClassAttribution(referralSource) ==
    IF referralSource /= "unknown" THEN referralSource ELSE "class_only"

\* body of the loop over classRSVPs.unique
FoldClassEntry(entry, rsvp) ==
    LET e1 == FillName(entry, rsvp.name)
        e2 == UpdateAttribution(e1, ClassAttribution(rsvp.referralSource), rsvp.referralRaw)
        e3 == UpdateFirstSeen(e2, rsvp.timestamp)
    IN  [e3 EXCEPT !.classesAttended = PushAllUnique(@, rsvp.classesAttended)]

\* body of the loop over formResponses
FoldFormEntry(entry, form) ==
    LET e1 == FillName(entry, form.name)
        e2 == [e1 EXCEPT !.sources = PushUnique(@, "registration_form")]
        e3 == UpdateAttribution(e2, "website", "Registration Form")
        e4 == UpdateFirstSeen(e3, form.timestamp)
        e5 == FillOffice(e4, form.office)
    IN  [e5 EXCEPT !.registrationStatus = form.status,
                   !.registrationTimestamp = form.timestamp]

\* faulty variant: the tracker counts as the 'website' channel
FoldExpEntry_Attributed(entry, exp) ==
    LET e1 == FillName(entry, exp.name)
        e2 == [e1 EXCEPT !.sources = PushUnique(@, "expecting_tracker")]
        e3 == UpdateAttribution(e2, "website", "Expecting Tracker")
        e4 == UpdateFirstSeen(e3, exp.timestamp)
        e5 == FillOffice(e4, exp.office)
    IN  [e5 EXCEPT !.expectingStage = exp.stage]

\* body of the loop over expectingLeads
FoldExpEntry(entry, exp) ==
    LET e1 == FillName(entry, exp.name)
        e2 == [e1 EXCEPT !.sources = PushUnique(@, "expecting_tracker")]
        e3 == UpdateFirstSeen(e2, exp.timestamp)
        e4 == FillOffice(e3, exp.office)
    IN  [e4 EXCEPT !.expectingStage = exp.stage]

----------------------------------------------------------------------------
(* fetchAllClassRSVPs: the dedup loop over allRSVPs *)

\* body of the loop for a row that has an existing entry
MergeRSVP(existing, rsvp) ==
    LET e1 == [existing EXCEPT !.classesAttended = PushUnique(@, rsvp.sheetTab)]
    IN  IF e1.referralSource = "unknown" /\ rsvp.referralSource /= "unknown"
        THEN [e1 EXCEPT !.referralSource = rsvp.referralSource,
                        !.referralRaw = rsvp.referralRaw]
        ELSE e1

\* const entry = { ...rsvp, classesAttended: [rsvp.sheetTab] }
NewRSVPEntry(rsvp) ==
    [name |-> rsvp.name, phone |-> rsvp.phone, email |-> rsvp.email,
     referralRaw |-> rsvp.referralRaw, referralSource |-> rsvp.referralSource,
     sheetTab |-> rsvp.sheetTab, timestamp |-> rsvp.timestamp,
     classesAttended |-> <<rsvp.sheetTab>>]

----------------------------------------------------------------------------
(* Input rows *)

\* rows of allRSVPs: a row without name, phone and email is skipped before the push
RSVPRows(d) ==
    {r \in [name : d.names, phone : d.phones, email : d.emails, ref : d.refs,
            sheetTab : d.tabs, timestamp : d.dates] :
        ~(r.name = "" /\ r.phone = "" /\ r.email = "")}

\* the entry pushed to allRSVPs for a row
RSVPOfRow(r) ==
    [name |-> r.name, phone |-> r.phone, email |-> r.email,
     referralRaw |-> r.ref.raw, referralSource |-> r.ref.source,
     sheetTab |-> r.sheetTab, timestamp |-> r.timestamp]

\* fetchFBLeads: the leads pushed to allLeads
FBLeads(d) == [phone : d.phones, email : d.emails, date : d.dates]

\* parseFormResponses: the submissions pushed
FormResponses(d) ==
    [timestamp : d.dates, name : d.names, email : d.emails, phone : d.phones,
     office : d.offices, status : d.statuses]

\* parseExpectingParents: a lead is pushed only with a name and a timestamp holding '/'
ExpectingLeads(d) ==
    [timestamp : d.expDates, name : d.names \ {""}, email : d.emails,
     phone : d.phones, office : d.offices, stage : d.stages]

\* input sets that vary the identity keys: two valid phones, one too short to be a
\* key, two emails
KeyDom ==
    [phones |-> {"", "5550134", "9085550134", "9085550177"},
     emails |-> {"", "a@x.com", "b@x.com"},
     names |-> {"Tina Kang"},
     dates |-> {"2026-01-12"},
     expDates |-> {"1/5/2026"},
     offices |-> {"Warren"},
     refs |-> {[raw |-> "", source |-> "unknown"]},
     tabs |-> {"BSCWI Jan"},
     statuses |-> {"scheduled"},
     stages |-> {"declined"}]

\* input sets that vary the referral channel and the name
RefDom ==
    [phones |-> {"", "9085550134"},
     emails |-> {"", "a@x.com"},
     names |-> {"", "Tina Kang"},
     dates |-> {"2026-01-12"},
     expDates |-> {"1/5/2026"},
     offices |-> {"Warren"},
     refs |-> {[raw |-> "", source |-> "unknown"],
               [raw |-> "a friend", source |-> "word_of_mouth"],
               [raw |-> "Instagram", source |-> "instagram"]},
     tabs |-> {"BSCWI Jan"},
     statuses |-> {"scheduled"},
     stages |-> {"declined"}]

\* input sets that vary the fields filled from the records: one person, two
\* spellings of the name, two offices or none, two statuses, two stages
FieldDom ==
    [phones |-> {"9085550134"},
     emails |-> {""},
     names |-> {"Tina Kang", "T. Kang"},
     dates |-> {"2026-01-12"},
     expDates |-> {"1/5/2026"},
     offices |-> {"", "Warren", "Edison"},
     refs |-> {[raw |-> "", source |-> "unknown"]},
     tabs |-> {"BSCWI Jan"},
     statuses |-> {"scheduled", "declined"},
     stages |-> {"declined", "scheduled_upcoming"}]

\* input sets that vary the dates: one person, two classes, an empty date, two
\* dates and a string that is no date
DateDom ==
    [phones |-> {"9085550134"},
     emails |-> {""},
     names |-> {"Tina Kang"},
     dates |-> {"", "2026-01-12", "2026-01-19", "n/a"},
     expDates |-> {"1/5/2026", "n/a"},
     offices |-> {"Warren"},
     refs |-> {[raw |-> "", source |-> "unknown"]},
     tabs |-> {"BSCWI Jan", "BSCWI Feb"},
     statuses |-> {"scheduled"},
     stages |-> {"declined"}]

NoRecord ==
    [src |-> "none", phone |-> "", email |-> "", name |-> "", channel |-> "",
     date |-> "", idx |-> 0, created |-> FALSE]

----------------------------------------------------------------------------
(* The run: fetchAllClassRSVPs, then buildUnifiedLeadList *)

InitLeads ==
    /\ dom \in {KeyDom, RefDom, FieldDom, DateDom}
    /\ pc = "rsvp"
    /\ n = 0
    /\ rsvpByPhone = EmptyMap
    /\ rsvpByEmail = EmptyMap
    /\ deduped = <<>>
    /\ rowSources = <<>>
    /\ rowDates = <<>>
    /\ leads = <<>>
    /\ byPhone = EmptyMap
    /\ byEmail = EmptyMap
    /\ classPos = 1
    /\ last = NoRecord
    /\ folded = {}
    /\ contrib = <<>>
    /\ seenDates = <<>>
    /\ foldedTo = {}

\* one iteration of "for (const rsvp of allRSVPs)"
DedupRSVP ==
    /\ pc = "rsvp"
    /\ n < MaxRecords
    /\ \E r \in RSVPRows(dom) :
        LET rsvp == RSVPOfRow(r)
            key == NormPhone(rsvp.phone)
            emailKey == rsvp.email
            existing == LookupExisting(rsvpByPhone, rsvpByEmail, key, emailKey)
            idx == Len(deduped) + 1
            chan == ClassAttribution(rsvp.referralSource)
        IN  IF existing /= 0
            THEN /\ deduped' = [deduped EXCEPT ![existing] = MergeRSVP(@, rsvp)]
                 /\ rowSources' = [rowSources EXCEPT ![existing] = @ \cup {chan}]
                 /\ rowDates' = [rowDates EXCEPT ![existing] = @ \cup {rsvp.timestamp}]
                 /\ UNCHANGED <<rsvpByPhone, rsvpByEmail>>
            ELSE /\ deduped' = Append(deduped, NewRSVPEntry(rsvp))
                 /\ rowSources' = Append(rowSources, {chan})
                 /\ rowDates' = Append(rowDates, {rsvp.timestamp})
                 /\ rsvpByPhone' = IF key /= "" THEN MapSet(rsvpByPhone, key, idx)
                                   ELSE rsvpByPhone
                 /\ rsvpByEmail' = IF emailKey /= "" THEN MapSet(rsvpByEmail, emailKey, idx)
                                   ELSE rsvpByEmail
    /\ n' = n + 1
    /\ UNCHANGED <<dom, pc, leads, byPhone, byEmail, classPos, last, folded, contrib, seenDates, foldedTo>>
    /\ UNCHANGED <<matchVars, funnelVars, phoneVars, classifyVars, clockVars>>

\* allRSVPs is exhausted: fetchAllClassRSVPs returns, buildUnifiedLeadList starts
EndRSVPs ==
    /\ pc = "rsvp"
    /\ pc' = "fb"
    /\ UNCHANGED <<dom, n, rsvpByPhone, rsvpByEmail, deduped, rowSources, rowDates, leads,
                   byPhone, byEmail, classPos, last, folded, contrib, seenDates, foldedTo>>
    /\ UNCHANGED <<matchVars, funnelVars, phoneVars, classifyVars, clockVars>>

\* the body of the loop over the records of source src, on the entry of the record
FoldEntry(src, entry, rec) ==
    CASE src = "fb" -> FoldFBEntry(entry, rec)
      [] src = "class" -> FoldClassEntry(entry, rec)
      [] src = "form" -> FoldFormEntry(entry, rec)
      [] src = "exp" -> FoldExpEntry(entry, rec)

\* the state change shared by the four loops of buildUnifiedLeadList
Fold(src, phone, email, name, channel, chans, dates, rec) ==
    LET g == GetOrCreate(leads, byPhone, byEmail, phone, email, name)
    IN  /\ leads' = [g.leads EXCEPT ![g.idx] = FoldEntry(src, @, rec)]
        /\ byPhone' = g.byPhone
        /\ byEmail' = g.byEmail
        /\ last' = [src |-> src, phone |-> phone, email |-> email, name |-> name,
                    channel |-> channel,
                    date |-> IF src = "fb" THEN rec.date ELSE rec.timestamp,
                    idx |-> g.idx, created |-> g.created]
        /\ folded' = folded \cup {[src |-> src, phone |-> phone, email |-> email,
                                   name |-> name]}
        /\ contrib' = IF g.created THEN Append(contrib, chans)
                      ELSE [contrib EXCEPT ![g.idx] = @ \cup chans]
        /\ seenDates' = IF g.created THEN Append(seenDates, dates)
                        ELSE [seenDates EXCEPT ![g.idx] = @ \cup dates]
        /\ foldedTo' = IF NormPhone(phone) /= "" THEN foldedTo \cup {<<NormPhone(phone), g.idx>>}
                       ELSE foldedTo

\* 1. one iteration of "for (const fb of fbLeads)"
FoldFB ==
    /\ pc = "fb"
    /\ n < MaxRecords
    /\ \E fb \in FBLeads(dom) :
        Fold("fb", fb.phone, fb.email, "", "facebook_ad", {"facebook_ad"}, {fb.date}, fb)
    /\ n' = n + 1
    /\ UNCHANGED <<dom, pc, rsvpByPhone, rsvpByEmail, deduped, rowSources, rowDates,
                   classPos>>
    /\ UNCHANGED <<matchVars, funnelVars, phoneVars, classifyVars, clockVars>>

EndFB ==
    /\ pc = "fb"
    /\ pc' = "class"
    /\ UNCHANGED <<dom, n, rsvpByPhone, rsvpByEmail, deduped, rowSources, rowDates, leads,
                   byPhone, byEmail, classPos, last, folded, contrib, seenDates, foldedTo>>
    /\ UNCHANGED <<matchVars, funnelVars, phoneVars, classifyVars, clockVars>>

\* 2. one iteration of "for (const rsvp of classRSVPs.unique)"
FoldClass ==
    /\ pc = "class"
    /\ classPos <= Len(deduped)
    /\ LET rsvp == deduped[classPos]
       IN  Fold("class", rsvp.phone, rsvp.email, rsvp.name,
                ClassAttribution(rsvp.referralSource), rowSources[classPos],
                rowDates[classPos], rsvp)
    /\ classPos' = classPos + 1
    /\ UNCHANGED <<dom, pc, n, rsvpByPhone, rsvpByEmail, deduped, rowSources, rowDates>>
    /\ UNCHANGED <<matchVars, funnelVars, phoneVars, classifyVars, clockVars>>

EndClass ==
    /\ pc = "class"
    /\ classPos > Len(deduped)
    /\ pc' = "form"
    /\ UNCHANGED <<dom, n, rsvpByPhone, rsvpByEmail, deduped, rowSources, rowDates, leads,
                   byPhone, byEmail, classPos, last, folded, contrib, seenDates, foldedTo>>
    /\ UNCHANGED <<matchVars, funnelVars, phoneVars, classifyVars, clockVars>>

\* 3. one iteration of "for (const form of formResponses)"
FoldForm ==
    /\ pc = "form"
    /\ n < MaxRecords
    /\ \E form \in FormResponses(dom) :
        Fold("form", form.phone, form.email, form.name, "website", {"website"},
             {form.timestamp}, form)
    /\ n' = n + 1
    /\ UNCHANGED <<dom, pc, rsvpByPhone, rsvpByEmail, deduped, rowSources, rowDates,
                   classPos>>
    /\ UNCHANGED <<matchVars, funnelVars, phoneVars, classifyVars, clockVars>>

EndForm ==
    /\ pc = "form"
    /\ pc' = "exp"
    /\ UNCHANGED <<dom, n, rsvpByPhone, rsvpByEmail, deduped, rowSources, rowDates, leads,
                   byPhone, byEmail, classPos, last, folded, contrib, seenDates, foldedTo>>
    /\ UNCHANGED <<matchVars, funnelVars, phoneVars, classifyVars, clockVars>>

\* 4. one iteration of "for (const exp of expectingLeads)"
FoldExp ==
    /\ pc = "exp"
    /\ n < MaxRecords
    /\ \E exp \in ExpectingLeads(dom) :
        Fold("exp", exp.phone, exp.email, exp.name, "", {}, {exp.timestamp}, exp)
    /\ n' = n + 1
    /\ UNCHANGED <<dom, pc, rsvpByPhone, rsvpByEmail, deduped, rowSources, rowDates,
                   classPos>>
    /\ UNCHANGED <<matchVars, funnelVars, phoneVars, classifyVars, clockVars>>

\* return leads
EndExp ==
    /\ pc = "exp"
    /\ pc' = "done"
    /\ UNCHANGED <<dom, n, rsvpByPhone, rsvpByEmail, deduped, rowSources, rowDates, leads,
                   byPhone, byEmail, classPos, last, folded, contrib, seenDates, foldedTo>>
    /\ UNCHANGED <<matchVars, funnelVars, phoneVars, classifyVars, clockVars>>

NextLeads ==
    \/ DedupRSVP \/ EndRSVPs
    \/ FoldFB \/ EndFB
    \/ FoldClass \/ EndClass
    \/ FoldForm \/ EndForm
    \/ FoldExp \/ EndExp

----------------------------------------------------------------------------
(* Character-level string functions.  A scanned string is a tuple of        *)
(* one-character strings; Chars gives the characters of the strings that    *)
(* occur in the input sets.                                                 *)

Chars(str) ==
    CASE str = "" -> <<>>
      [] str = "9085550134" -> <<"9","0","8","5","5","5","0","1","3","4">>
      [] str = "9085550177" -> <<"9","0","8","5","5","5","0","1","7","7">>
      [] str = "19085550134" -> <<"1","9","0","8","5","5","5","0","1","3","4">>
      [] str = "5550134" -> <<"5","5","5","0","1","3","4">>
      [] str = "(908) 555-0134" ->
             <<"(","9","0","8",")"," ","5","5","5","-","0","1","3","4">>
      [] str = "(908) 555-0134 ext 2" ->
             <<"(","9","0","8",")"," ","5","5","5","-","0","1","3","4",
               " ","e","x","t"," ","2">>
      [] str = "+1 908 555 0134" ->
             <<"+","1"," ","9","0","8"," ","5","5","5"," ","0","1","3","4">>
      [] str = "0855501342" -> <<"0","8","5","5","5","0","1","3","4","2">>
      [] str = "555-0134" -> <<"5","5","5","-","0","1","3","4">>
      [] str = "a@x.com" -> <<"a","@","x",".","c","o","m">>
      [] str = "b@x.com" -> <<"b","@","x",".","c","o","m">>
      [] str = "a@x.com; b@x.com" ->
             <<"a","@","x",".","c","o","m",";"," ","b","@","x",".","c","o","m">>
      [] str = "Tina Kang" -> <<"T","i","n","a"," ","K","a","n","g">>
      [] str = "Kunal Kang" -> <<"K","u","n","a","l"," ","K","a","n","g">>
      [] str = "Tina Kang and Kunalajit (Kunal) Kang" ->
             <<"T","i","n","a"," ","K","a","n","g"," ","a","n","d"," ",
               "K","u","n","a","l","a","j","i","t"," ","(","K","u","n","a","l",")",
               " ","K","a","n","g">>
      [] str = "Uma Rao" -> <<"U","m","a"," ","R","a","o">>
      [] str = "kang" -> <<"k","a","n","g">>
      [] str = "rao" -> <<"r","a","o">>
      [] str = "tina" -> <<"t","i","n","a">>
      [] str = "kunal" -> <<"k","u","n","a","l">>
      [] str = "uma" -> <<"u","m","a">>
      [] str = "x" -> <<"x">>

\* the characters of the patterns of the classifiers and of the sample cells they
\* are called on
Text(str) ==
    CASE str = "" -> <<>>
      [] str = "1/5/2026" -> <<"1","/","5","/","2","0","2","6">>
      [] str = "1/12/2026" -> <<"1","/","1","2","/","2","0","2","6">>
      [] str = "1/26/2026" -> <<"1","/","2","6","/","2","0","2","6">>
      [] str = "meta" ->
             <<"m","e","t","a">>
      [] str = "feeding fund" ->
             <<"f","e","e","d","i","n","g"," ","f","u","n","d">>
      [] str = "are you expecting" ->
             <<"a","r","e"," ","y","o","u"," ","e","x","p","e","c","t","i","n","g">>
      [] str = "leads" ->
             <<"l","e","a","d","s">>
      [] str = "facebook" ->
             <<"f","a","c","e","b","o","o","k">>
      [] str = "fb ad" ->
             <<"f","b"," ","a","d">>
      [] str = "fb " ->
             <<"f","b"," ">>
      [] str = "instagram" ->
             <<"i","n","s","t","a","g","r","a","m">>
      [] str = "ig ad" ->
             <<"i","g"," ","a","d">>
      [] str = "ig" ->
             <<"i","g">>
      [] str = "employee referral" ->
             <<"e","m","p","l","o","y","e","e"," ","r","e","f","e","r","r","a","l">>
      [] str = "marina hanna" ->
             <<"m","a","r","i","n","a"," ","h","a","n","n","a">>
      [] str = "staff" ->
             <<"s","t","a","f","f">>
      [] str = "employee" ->
             <<"e","m","p","l","o","y","e","e">>
      [] str = "google" ->
             <<"g","o","o","g","l","e">>
      [] str = "googling" ->
             <<"g","o","o","g","l","i","n","g">>
      [] str = "list serv" ->
             <<"l","i","s","t"," ","s","e","r","v">>
      [] str = "listserv" ->
             <<"l","i","s","t","s","e","r","v">>
      [] str = "via email" ->
             <<"v","i","a"," ","e","m","a","i","l">>
      [] str = "email" ->
             <<"e","m","a","i","l">>
      [] str = "email blast" ->
             <<"e","m","a","i","l"," ","b","l","a","s","t">>
      [] str = "a friend" ->
             <<"a"," ","f","r","i","e","n","d">>
      [] str = "existing patient" ->
             <<"e","x","i","s","t","i","n","g"," ","p","a","t","i","e","n","t">>
      [] str = "referral" ->
             <<"r","e","f","e","r","r","a","l">>
      [] str = "word of mouth" ->
             <<"w","o","r","d"," ","o","f"," ","m","o","u","t","h">>
      [] str = "friend" ->
             <<"f","r","i","e","n","d">>
      [] str = "form" ->
             <<"f","o","r","m">>
      [] str = "your website" ->
             <<"y","o","u","r"," ","w","e","b","s","i","t","e">>
      [] str = "website" ->
             <<"w","e","b","s","i","t","e">>
      [] str = "watchung pediatrics" ->
             <<"w","a","t","c","h","u","n","g"," ","p","e","d","i","a","t","r","i","c",
               "s">>
      [] str = "watchung peds" ->
             <<"w","a","t","c","h","u","n","g"," ","p","e","d","s">>
      [] str = "scheduled" ->
             <<"s","c","h","e","d","u","l","e","d">>
      [] str = "sch " ->
             <<"s","c","h"," ">>
      [] str = "npi scheduled" ->
             <<"n","p","i"," ","s","c","h","e","d","u","l","e","d">>
      [] str = "declined" ->
             <<"d","e","c","l","i","n","e","d">>
      [] str = "not welcomed" ->
             <<"n","o","t"," ","w","e","l","c","o","m","e","d">>
      [] str = "discharged" ->
             <<"d","i","s","c","h","a","r","g","e","d">>
      [] str = "unable to" ->
             <<"u","n","a","b","l","e"," ","t","o">>
      [] str = "numerous attempt" ->
             <<"n","u","m","e","r","o","u","s"," ","a","t","t","e","m","p","t">>
      [] str = "lmtcb" ->
             <<"l","m","t","c","b">>
      [] str = "l/m" ->
             <<"l","/","m">>
      [] str = "email sent" ->
             <<"e","m","a","i","l"," ","s","e","n","t">>
      [] str = "pending mr" ->
             <<"p","e","n","d","i","n","g"," ","m","r">>
      [] str = "pending np" ->
             <<"p","e","n","d","i","n","g"," ","n","p">>
      [] str = "pending packet" ->
             <<"p","e","n","d","i","n","g"," ","p","a","c","k","e","t">>
      [] str = "pending ins" ->
             <<"p","e","n","d","i","n","g"," ","i","n","s">>
      [] str = "pending accom" ->
             <<"p","e","n","d","i","n","g"," ","a","c","c","o","m">>
      [] str = "np process complete" ->
             <<"n","p"," ","p","r","o","c","e","s","s"," ","c","o","m","p","l","e","t",
               "e">>
      [] str = "ok to schedule" ->
             <<"o","k"," ","t","o"," ","s","c","h","e","d","u","l","e">>
      [] str = "ok to sch" ->
             <<"o","k"," ","t","o"," ","s","c","h">>
      [] str = "due for pe" ->
             <<"d","u","e"," ","f","o","r"," ","p","e">>
      [] str = "overdue" ->
             <<"o","v","e","r","d","u","e">>
      [] str = "prn" ->
             <<"p","r","n">>
      [] str = "spoke w/" ->
             <<"s","p","o","k","e"," ","w","/">>
      [] str = "returned call" ->
             <<"r","e","t","u","r","n","e","d"," ","c","a","l","l">>
      [] str = "mom called" ->
             <<"m","o","m"," ","c","a","l","l","e","d">>
      [] str = "dad came" ->
             <<"d","a","d"," ","c","a","m","e">>
      [] str = "father came" ->
             <<"f","a","t","h","e","r"," ","c","a","m","e">>
      [] str = "nicu" ->
             <<"n","i","c","u">>
      [] str = "out of the country" ->
             <<"o","u","t"," ","o","f"," ","t","h","e"," ","c","o","u","n","t","r","y">>
      [] str = "test" ->
             <<"t","e","s","t">>
      [] str = "pending" ->
             <<"p","e","n","d","i","n","g">>
      [] str = "no" ->
             <<"n","o">>
      [] str = "not scheduled" ->
             <<"n","o","t"," ","s","c","h","e","d","u","l","e","d">>
      [] str = "Meta" ->
             <<"M","e","t","a">>
      [] str = "Facebook ad" ->
             <<"F","a","c","e","b","o","o","k"," ","a","d">>
      [] str = "FB Ad" ->
             <<"F","B"," ","A","d">>
      [] str = "Instagram" ->
             <<"I","n","s","t","a","g","r","a","m">>
      [] str = "IG" ->
             <<"I","G">>
      [] str = "Marina Hanna told us" ->
             <<"M","a","r","i","n","a"," ","H","a","n","n","a"," ","t","o","l","d"," ",
               "u","s">>
      [] str = "staff member and a friend" ->
             <<"s","t","a","f","f"," ","m","e","m","b","e","r"," ","a","n","d"," ","a",
               " ","f","r","i","e","n","d">>
      [] str = "Googling" ->
             <<"G","o","o","g","l","i","n","g">>
      [] str = "Email blast" ->
             <<"E","m","a","i","l"," ","b","l","a","s","t">>
      [] str = "Word of mouth" ->
             <<"W","o","r","d"," ","o","f"," ","m","o","u","t","h">>
      [] str = "Your website" ->
             <<"Y","o","u","r"," ","w","e","b","s","i","t","e">>
      [] str = "Watchung Peds" ->
             <<"W","a","t","c","h","u","n","g"," ","P","e","d","s">>
      [] str = "mom group" ->
             <<"m","o","m"," ","g","r","o","u","p">>
      [] str = "big" ->
             <<"b","i","g">>
      [] str = "Are you expecting?" ->
             <<"A","r","e"," ","y","o","u"," ","e","x","p","e","c","t","i","n","g","?">>
      [] str = "Scheduled 1/5" ->
             <<"S","c","h","e","d","u","l","e","d"," ","1","/","5">>
      [] str = "sch 01/10" ->
             <<"s","c","h"," ","0","1","/","1","0">>
      [] str = "NPI scheduled" ->
             <<"N","P","I"," ","s","c","h","e","d","u","l","e","d">>
      [] str = "Declined" ->
             <<"D","e","c","l","i","n","e","d">>
      [] str = "unable to reach" ->
             <<"u","n","a","b","l","e"," ","t","o"," ","r","e","a","c","h">>
      [] str = "LMTCB" ->
             <<"L","M","T","C","B">>
      [] str = "L/M 1/3" ->
             <<"L","/","M"," ","1","/","3">>
      [] str = "Pending MR + pending ins" ->
             <<"P","e","n","d","i","n","g"," ","M","R"," ","+"," ","p","e","n","d","i",
               "n","g"," ","i","n","s">>
      [] str = "NP process complete" ->
             <<"N","P"," ","p","r","o","c","e","s","s"," ","c","o","m","p","l","e","t",
               "e">>
      [] str = "Due for PE" ->
             <<"D","u","e"," ","f","o","r"," ","P","E">>
      [] str = "PRN" ->
             <<"P","R","N">>
      [] str = "spoke w/ mom" ->
             <<"s","p","o","k","e"," ","w","/"," ","m","o","m">>
      [] str = "NICU" ->
             <<"N","I","C","U">>
      [] str = "01/05/26 called" ->
             <<"0","1","/","0","5","/","2","6"," ","c","a","l","l","e","d">>
      [] str = "1/5/26 called" ->
             <<"1","/","5","/","2","6"," ","c","a","l","l","e","d">>
      [] str = "see notes" ->
             <<"s","e","e"," ","n","o","t","e","s">>
      [] str = "01/20/2026- WRN" ->
             <<"0","1","/","2","0","/","2","0","2","6","-"," ","W","R","N">>
      [] str = "01/20/2026" ->
             <<"0","1","/","2","0","/","2","0","2","6">>
      [] str = "Pending" ->
             <<"P","e","n","d","i","n","g">>
      [] str = "No" ->
             <<"N","o">>
      [] str = "2nd call" ->
             <<"2","n","d"," ","c","a","l","l">>
      [] str = "maybe" ->
             <<"m","a","y","b","e">>
      [] str = "1/5" ->
             <<"1","/","5">>
      [] str = "Not scheduled" ->
             <<"N","o","t"," ","s","c","h","e","d","u","l","e","d">>
      [] str = "TBD" ->
             <<"T","B","D">>
      [] str = "1//2026" ->
             <<"1","/","/","2","0","2","6">>
      [] str = "13/1/2026" ->
             <<"1","3","/","1","/","2","0","2","6">>
      [] str = "1/5/26" ->
             <<"1","/","5","/","2","6">>

UpperCase == <<"A","B","C","D","E","F","G","H","I","J","K","L","M",
               "N","O","P","Q","R","S","T","U","V","W","X","Y","Z">>

LowerCase == <<"a","b","c","d","e","f","g","h","i","j","k","l","m",
               "n","o","p","q","r","s","t","u","v","w","x","y","z">>

\* String.prototype.toLowerCase
ToLowerCase(cs) ==
    [i \in 1..Len(cs) |->
        IF cs[i] \in Range(UpperCase) THEN LowerCase[IndexOf(UpperCase, cs[i]) + 1]
        ELSE cs[i]]

IsDigit(c) == c \in {"0", "1", "2", "3", "4", "5", "6", "7", "8", "9"}

IsSpace(c) == c \in {" ", "\t", "\n"}

\* String.prototype.trim
RECURSIVE TrimStart(_)
TrimStart(cs) == IF cs /= <<>> /\ IsSpace(Head(cs)) THEN TrimStart(Tail(cs)) ELSE cs

RECURSIVE TrimEnd(_)
TrimEnd(cs) ==
    IF cs /= <<>> /\ IsSpace(cs[Len(cs)]) THEN TrimEnd(SubSeq(cs, 1, Len(cs) - 1)) ELSE cs

Trim(cs) == TrimEnd(TrimStart(cs))

\* String.prototype.includes for a one-character pattern
IncludesChar(cs, c) == c \in Range(cs)

\* String.prototype.slice(-k)
SliceLast(cs, k) == IF Len(cs) <= k THEN cs ELSE SubSeq(cs, Len(cs) - k + 1, Len(cs))

\* String.prototype.split on a class of one-character separators: the pieces
\* between the separators, the empty ones included
RECURSIVE SplitAcc(_, _, _, _)
SplitAcc(cs, seps, cur, acc) ==
    IF cs = <<>> THEN Append(acc, cur)
    ELSE IF Head(cs) \in seps THEN SplitAcc(Tail(cs), seps, <<>>, Append(acc, cur))
    ELSE SplitAcc(Tail(cs), seps, Append(cur, Head(cs)), acc)

Split(cs, seps) == SplitAcc(cs, seps, <<>>, <<>>)

\* String.prototype.split(/\s+/): a run of whitespace is one separator
RECURSIVE SplitWsAcc(_, _, _)
SplitWsAcc(cs, cur, acc) ==
    IF cs = <<>> THEN Append(acc, cur)
    ELSE IF IsSpace(Head(cs))
         THEN SplitWsAcc(TrimStart(cs), <<>>, Append(acc, cur))
         ELSE SplitWsAcc(Tail(cs), Append(cur, Head(cs)), acc)

SplitWs(cs) == SplitWsAcc(cs, <<>>, <<>>)

\* fullName.replace(/\([^)]*\)/g, ''): every '(' with a later ')' goes, up to the
\* first such ')'
RECURSIVE StripParens(_)
StripParens(cs) ==
    IF cs = <<>> THEN <<>>
    ELSE IF Head(cs) = "(" /\ IncludesChar(Tail(cs), ")")
         THEN StripParens(SubSeq(cs, IndexOf(cs, ")") + 2, Len(cs)))
         ELSE <<Head(cs)>> \o StripParens(Tail(cs))

\* extractLastName
ExtractLastName(fullName) ==
    IF fullName = <<>> THEN <<>>
    ELSE LET cleaned == Trim(StripParens(fullName))
             nonEmpty(w) == w /= <<>>
             parts == SelectSeq(SplitWs(cleaned), nonEmpty)
         IN  IF Len(parts) = 0 THEN <<>> ELSE ToLowerCase(parts[Len(parts)])

\* splitEmails
SplitEmails(emailField) ==
    IF emailField = <<>> THEN <<>>
    ELSE LET pieces == Split(emailField, {";", ","})
             norm == [i \in 1..Len(pieces) |-> ToLowerCase(Trim(pieces[i]))]
             ok(e) == Len(e) > 3 /\ IncludesChar(e, "@")
         IN  SelectSeq(norm, ok)

----------------------------------------------------------------------------
(* Classifiers.  A cell is a string of characters, or Undefined where the   *)
(* row has no such column.                                                  *)

Undefined == <<"undefined">>

\* !v for a cell
Falsy(v) == v = Undefined \/ v = <<>>

\* v || ''
OrEmpty(v) == IF Falsy(v) THEN <<>> ELSE v

\* String.prototype.includes
Includes(cs, pat) ==
    \E i \in 0..(Len(cs) - Len(pat)) : SubSeq(cs, i + 1, i + Len(pat)) = pat

\* String.prototype.startsWith
StartsWith(cs, pat) == Len(cs) >= Len(pat) /\ SubSeq(cs, 1, Len(pat)) = pat

\* the condition of one "if" of a classifier: t === e for an e of equals, or
\* t.includes(p) for a p of includes, or t.startsWith(p) for a p of startsWith
RuleMatches(rule, t) ==
    \/ \E e \in rule.equals : t = Text(e)
    \/ \E pat \in rule.includes : Includes(t, Text(pat))
    \/ \E pat \in rule.startsWith : StartsWith(t, Text(pat))

\* the rules that match t, in the order of the code
MatchingRules(rules, t) ==
    LET hit(rule) == RuleMatches(rule, t)
    IN  SelectSeq(rules, hit)

\* the "if" chain of classifyReferralSource
REFERRAL_RULES ==
    <<[category |-> "facebook_ad", equals |-> {"meta", "leads"},
       includes |-> {"feeding fund", "are you expecting", "facebook", "fb ad", "fb "},
       startsWith |-> {}],
      [category |-> "instagram", equals |-> {"ig ad", "ig"},
       includes |-> {"instagram"}, startsWith |-> {}],
      [category |-> "employee_referral", equals |-> {},
       includes |-> {"employee referral", "marina hanna", "staff", "employee"},
       startsWith |-> {}],
      [category |-> "google_search", equals |-> {},
       includes |-> {"google", "googling"}, startsWith |-> {}],
      [category |-> "email_marketing", equals |-> {"email"},
       includes |-> {"list serv", "listserv", "via email", "email blast"},
       startsWith |-> {}],
      [category |-> "word_of_mouth", equals |-> {},
       includes |-> {"a friend", "existing patient", "referral", "word of mouth", "friend"},
       startsWith |-> {}],
      [category |-> "website", equals |-> {"form"},
       includes |-> {"your website", "website", "watchung pediatrics", "watchung peds"},
       startsWith |-> {}]>>

\* faulty variant: no default after the last rule
ClassifyReferralSource_NoDefault(text) ==
    IF Falsy(text) \/ Trim(text) = <<>> THEN "unknown"
    ELSE LET hits == MatchingRules(REFERRAL_RULES, ToLowerCase(Trim(text)))
         IN  IF hits = <<>> THEN "undefined" ELSE hits[1].category

\* faulty variant: the last matching rule decides
ClassifyReferralSource_LastMatch(text) ==
    IF Falsy(text) \/ Trim(text) = <<>> THEN "unknown"
    ELSE LET hits == MatchingRules(REFERRAL_RULES, ToLowerCase(Trim(text)))
         IN  IF hits = <<>> THEN "unknown" ELSE hits[Len(hits)].category

\* classifyReferralSource
ClassifyReferralSource(text) ==
    IF Falsy(text) \/ Trim(text) = <<>> THEN "unknown"
    ELSE LET hits == MatchingRules(REFERRAL_RULES, ToLowerCase(Trim(text)))
         IN  IF hits = <<>> THEN "unknown" ELSE hits[1].category

\* the "if" chain of classifyFormStatus, up to the test for a leading date
FORM_STATUS_RULES ==
    <<[category |-> "scheduled", equals |-> {}, includes |-> {"scheduled", "sch "},
       startsWith |-> {"npi scheduled"}],
      [category |-> "declined", equals |-> {},
       includes |-> {"declined", "not welcomed", "discharged"}, startsWith |-> {}],
      [category |-> "unable_to_reach", equals |-> {},
       includes |-> {"unable to", "numerous attempt"}, startsWith |-> {}],
      [category |-> "left_message", equals |-> {},
       includes |-> {"lmtcb", "l/m", "email sent"}, startsWith |-> {}],
      [category |-> "pending_docs", equals |-> {},
       includes |-> {"pending mr", "pending np", "pending packet", "pending ins",
                     "pending accom"},
       startsWith |-> {}],
      [category |-> "ready_to_schedule", equals |-> {},
       includes |-> {"np process complete", "ok to schedule", "ok to sch"},
       startsWith |-> {}],
      [category |-> "due_for_pe", equals |-> {}, includes |-> {"due for pe", "overdue"},
       startsWith |-> {"prn"}],
      [category |-> "contacted", equals |-> {},
       includes |-> {"spoke w/", "returned call", "mom called", "dad came", "father came"},
       startsWith |-> {}],
      [category |-> "on_hold", equals |-> {}, includes |-> {"nicu", "out of the country"},
       startsWith |-> {}],
      [category |-> "test", equals |-> {}, includes |-> {"test"}, startsWith |-> {}]>>

\* /^\d{2}\/\d{2}\/\d{2}/.test(s)
LeadingDate(cs) ==
    /\ Len(cs) >= 8
    /\ \A i \in {1, 2, 4, 5, 7, 8} : IsDigit(cs[i])
    /\ cs[3] = "/"
    /\ cs[6] = "/"

\* classifyFormStatus
ClassifyFormStatus(status) ==
    IF Falsy(status) \/ Trim(status) = <<>> THEN "not_contacted"
    ELSE LET s == ToLowerCase(Trim(status))
             hits == MatchingRules(FORM_STATUS_RULES, s)
         IN  IF hits /= <<>> THEN hits[1].category
             ELSE IF LeadingDate(s) THEN "in_progress"
             ELSE "other"

Digits == <<"0", "1", "2", "3", "4", "5", "6", "7", "8", "9">>

RECURSIVE DigitsValue(_)
DigitsValue(cs) ==
    IF cs = <<>> THEN 0
    ELSE 10 * DigitsValue(SubSeq(cs, 1, Len(cs) - 1)) + IndexOf(Digits, cs[Len(cs)])

\* Number(str) for a string of decimal digits between blanks: the empty string is 0,
\* anything that is not digits is NaN
Number(cs) ==
    LET t == Trim(cs)
    IN  IF \A i \in 1..Len(t) : IsDigit(t[i]) THEN DigitsValue(t) ELSE NaN

IsLeapYear(y) == (y % 4 = 0 /\ y % 100 /= 0) \/ y % 400 = 0

\* the leap years before year y
LeapsBefore(y) == ((y - 1) \div 4) - ((y - 1) \div 100) + ((y - 1) \div 400)

\* the days of the months of year y
MonthDays(y) ==
    <<31, IF IsLeapYear(y) THEN 29 ELSE 28, 31, 30, 31, 30, 31, 31, 30, 31, 30, 31>>

RECURSIVE DaysBeforeMonth(_, _)
DaysBeforeMonth(y, monthIndex) ==
    IF monthIndex = 0 THEN 0
    ELSE DaysBeforeMonth(y, monthIndex - 1) + MonthDays(y)[monthIndex]

\* new Date(y, monthIndex, d) for y >= 100: a month or a day out of range carries
\* over, as in JavaScript
DateOf(y, monthIndex, d) ==
    LET yy == y + (monthIndex \div 12)
        mm == monthIndex % 12
    IN  (365 * (yy - 2026) + LeapsBefore(yy) - LeapsBefore(2026)
         + DaysBeforeMonth(yy, mm) + d) * DAY

\* parseDateLoose on the characters of the cell
ParseDateLooseChars(str) ==
    IF Falsy(str) THEN NaN
    ELSE LET parts == Split(str, {"/"})
         IN  IF Len(parts) /= 3 THEN NaN
             ELSE LET m == Number(parts[1])
                      d == Number(parts[2])
                      y == Number(parts[3])
                  IN  IF m = NaN \/ d = NaN \/ y = NaN THEN NaN
                      ELSE DateOf(IF y < 100 THEN y + 2000 ELSE y, m - 1, d)

\* d > new Date() ? 'scheduled_upcoming' : 'scheduled_past'
ScheduledStage(d) == IF d > clock THEN "scheduled_upcoming" ELSE "scheduled_past"

\* str.includes('/') || /^\d/.test(str)
LooksLikeDate(cs) == Includes(cs, <<"/">>) \/ (cs /= <<>> /\ IsDigit(cs[1]))

\* faulty variant: 'not scheduled' in the appointment column is tested first,
\* whatever the NPI column holds
ClassifyExpectingLead_SecondaryFirst(npiScheduled, aptScheduled) ==
    LET npi == Trim(OrEmpty(npiScheduled))
        apt == Trim(OrEmpty(aptScheduled))
        npiLower == ToLowerCase(npi)
        npiDate == ParseDateLooseChars(npi)
        aptDate == ParseDateLooseChars(Trim(Split(apt, {"-"})[1]))
    IN  IF apt /= <<>> /\ ToLowerCase(apt) = Text("not scheduled") THEN "contacted"
        ELSE IF npiLower = Text("declined") THEN "declined"
        ELSE IF LooksLikeDate(npi) /\ npiDate /= NaN THEN ScheduledStage(npiDate)
        ELSE IF Includes(npiLower, Text("email sent")) \/ Includes(npiLower, Text("pending"))
             THEN "pending_response"
        ELSE IF npiLower = Text("no") THEN "left_message"
        ELSE IF npi = <<>> /\ apt /= <<>> /\ LooksLikeDate(apt) /\ aptDate /= NaN
             THEN ScheduledStage(aptDate)
        ELSE IF npi = <<>> /\ apt = <<>> THEN "not_contacted"
        ELSE IF npi /= <<>> THEN "other"
        ELSE "not_contacted"

\* faulty variant: the whole appointment text is parsed, annotation included
ClassifyExpectingLead_WholeApt(npiScheduled, aptScheduled) ==
    LET npi == Trim(OrEmpty(npiScheduled))
        apt == Trim(OrEmpty(aptScheduled))
        npiLower == ToLowerCase(npi)
        npiDate == ParseDateLooseChars(npi)
        aptDate == ParseDateLooseChars(apt)
    IN  IF npiLower = Text("declined") THEN "declined"
        ELSE IF LooksLikeDate(npi) /\ npiDate /= NaN THEN ScheduledStage(npiDate)
        ELSE IF Includes(npiLower, Text("email sent")) \/ Includes(npiLower, Text("pending"))
             THEN "pending_response"
        ELSE IF npiLower = Text("no") THEN "left_message"
        ELSE IF npi = <<>> /\ apt /= <<>> /\ ToLowerCase(apt) = Text("not scheduled")
             THEN "contacted"
        ELSE IF npi = <<>> /\ apt /= <<>> /\ LooksLikeDate(apt) /\ aptDate /= NaN
             THEN ScheduledStage(aptDate)
        ELSE IF npi = <<>> /\ apt = <<>> THEN "not_contacted"
        ELSE IF npi /= <<>> THEN "other"
        ELSE "not_contacted"

\* classifyExpectingLead
ClassifyExpectingLead(npiScheduled, aptScheduled) ==
    LET npi == Trim(OrEmpty(npiScheduled))
        apt == Trim(OrEmpty(aptScheduled))
        npiLower == ToLowerCase(npi)
        npiDate == ParseDateLooseChars(npi)
        aptDate == ParseDateLooseChars(Trim(Split(apt, {"-"})[1]))
    IN  IF npiLower = Text("declined") THEN "declined"
        ELSE IF LooksLikeDate(npi) /\ npiDate /= NaN THEN ScheduledStage(npiDate)
        ELSE IF Includes(npiLower, Text("email sent")) \/ Includes(npiLower, Text("pending"))
             THEN "pending_response"
        ELSE IF npiLower = Text("no") THEN "left_message"
        ELSE IF npi = <<>> /\ apt /= <<>> /\ ToLowerCase(apt) = Text("not scheduled")
             THEN "contacted"
        ELSE IF npi = <<>> /\ apt /= <<>> /\ LooksLikeDate(apt) /\ aptDate /= NaN
             THEN ScheduledStage(aptDate)
        ELSE IF npi = <<>> /\ apt = <<>> THEN "not_contacted"
        ELSE IF npi /= <<>> THEN "other"
        ELSE "not_contacted"

----------------------------------------------------------------------------
(* matchLeadsToEHR *)

RECURSIVE Flatten(_)
Flatten(ss) == IF ss = <<>> THEN <<>> ELSE Head(ss) \o Flatten(Tail(ss))

\* the pushes "index.get(key).push(p)" of the index-building loop, in order;
\* keys[i] are the keys under which the i-th patient is pushed
IndexPushes(pats, keys) ==
    Flatten([i \in 1..Len(pats) |->
                [j \in 1..Len(keys[i]) |-> [key |-> keys[i][j], pos |-> i]]])

\* index.get(key): the positions in ehrPatients of the patients pushed under key
IndexGet(pushes, key) ==
    LET hit(e) == e.key = key
        hits == SelectSeq(pushes, hit)
    IN  [k \in 1..Len(hits) |-> hits[k].pos]

\* [p.phone1, ..., p.contact_phone].map(ph => ph ? ph.slice(-10) : '').filter(...)
PatientPhones(p) ==
    LET raw == <<p.phone1, p.phone2, p.phone3, p.phone4, p.contact_phone>>
        cut == [i \in 1..Len(raw) |-> SliceLast(Chars(raw[i]), 10)]
        tenDigits(ph) == Len(ph) = 10
    IN  SelectSeq(cut, tenDigits)

PatientEmails(p) == SplitEmails(Chars(p.contact_email))

\* for (const ln of [p.contact_last_name, p.patient_last_name]) if (ln && ln.length > 1)
PatientLastNames(p) ==
    LET long(ln) == Len(ln) > 1
    IN  SelectSeq(<<Chars(p.contact_last_name), Chars(p.patient_last_name)>>, long)

PhoneIndex(pats) == IndexPushes(pats, [i \in 1..Len(pats) |-> PatientPhones(pats[i])])
EmailIndex(pats) == IndexPushes(pats, [i \in 1..Len(pats) |-> PatientEmails(pats[i])])
NameIndex(pats) == IndexPushes(pats, [i \in 1..Len(pats) |-> PatientLastNames(pats[i])])

\* c.contact_first_name || c.patient_first_name || ''
EhrFirst(c) ==
    IF c.contact_first_name /= "" THEN Chars(c.contact_first_name)
    ELSE Chars(c.patient_first_name)

\* phone tier
MatchPhoneTier(lead, pats) ==
    IF lead.phone /= "" /\ Len(lead.phone) = 10
       /\ IndexGet(PhoneIndex(pats), Chars(lead.phone)) /= <<>>
    THEN IndexGet(PhoneIndex(pats), Chars(lead.phone))[1]
    ELSE 0

\* email tier: the first of the lead's emails that the index has
MatchEmailTier(lead, pats) ==
    IF lead.email = "" THEN 0
    ELSE LET has(em) == IndexGet(EmailIndex(pats), em) /= <<>>
             found == SelectSeq(SplitEmails(Chars(lead.email)), has)
         IN  IF found = <<>> THEN 0 ELSE IndexGet(EmailIndex(pats), found[1])[1]

\* faulty variant: the first candidate is taken even when several patients share
\* the surname
MatchNameTier_FirstOfSeveral(lead, pats) ==
    IF lead.name = "" THEN 0
    ELSE LET leadLast == ExtractLastName(Chars(lead.name))
             leadFirst == ToLowerCase(SplitWs(Trim(Chars(lead.name)))[1])
             candidates == IndexGet(NameIndex(pats), leadLast)
             initial(c) == EhrFirst(pats[c]) /= <<>> /\ EhrFirst(pats[c])[1] = leadFirst[1]
             initialMatch == IF leadFirst = <<>> THEN <<>> ELSE SelectSeq(candidates, initial)
         IN  IF ~(leadLast /= <<>> /\ Len(leadLast) > 1 /\ candidates /= <<>>) THEN 0
             ELSE IF initialMatch /= <<>> THEN initialMatch[1]
             ELSE candidates[1]

\* name tier
MatchNameTier(lead, pats) ==
    IF lead.name = "" THEN 0
    ELSE LET leadLast == ExtractLastName(Chars(lead.name))
             leadFirst == ToLowerCase(SplitWs(Trim(Chars(lead.name)))[1])
             candidates == IndexGet(NameIndex(pats), leadLast)
             initial(c) == EhrFirst(pats[c]) /= <<>> /\ EhrFirst(pats[c])[1] = leadFirst[1]
             initialMatch == IF leadFirst = <<>> THEN <<>> ELSE SelectSeq(candidates, initial)
             uniquePatients == {pats[candidates[k]].patient_id : k \in 1..Len(candidates)}
         IN  IF ~(leadLast /= <<>> /\ Len(leadLast) > 1 /\ candidates /= <<>>) THEN 0
             ELSE IF initialMatch /= <<>> THEN initialMatch[1]
             ELSE IF Cardinality(uniquePatients) = 1 THEN candidates[1]
             ELSE 0

\* faulty variant: the email tier is tried before the phone tier
ResolveLead_EmailFirst(lead, pats) ==
    LET byP == MatchPhoneTier(lead, pats)
        byE == MatchEmailTier(lead, pats)
        byN == MatchNameTier(lead, pats)
    IN  IF byE /= 0 THEN [patient |-> byE, matchTier |-> "email"]
        ELSE IF byP /= 0 THEN [patient |-> byP, matchTier |-> "phone"]
        ELSE IF byN /= 0 THEN [patient |-> byN, matchTier |-> "name"]
        ELSE [patient |-> 0, matchTier |-> "none"]

\* "Try to match to EHR: phone -> email -> last name": patient (a position in
\* ehrPatients, 0 for null) and matchTier
ResolveLead(lead, pats) ==
    LET byP == MatchPhoneTier(lead, pats)
        byE == MatchEmailTier(lead, pats)
        byN == MatchNameTier(lead, pats)
    IN  IF byP /= 0 THEN [patient |-> byP, matchTier |-> "phone"]
        ELSE IF byE /= 0 THEN [patient |-> byE, matchTier |-> "email"]
        ELSE IF byN /= 0 THEN [patient |-> byN, matchTier |-> "name"]
        ELSE [patient |-> 0, matchTier |-> "none"]

\* p.patient_id of a row that has none (undefined)
NoId == 0

\* faulty variant: the matched-ID set is not consulted
IsNewClaim_NoSet(patient, pats, ids) == patient /= 0

\* if (patient && !matchedPatientIds.has(patient.patient_id))
IsNewClaim(patient, pats, ids) == patient /= 0 /\ pats[patient].patient_id \notin ids

\* visitDate >= sevenDaysAgo, with sevenDaysAgo = today - 7 days
InWindow(visit, day) == visit /= NaN /\ visit >= day - 7 * DAY

\* classStats after "for (const cls of ...) classStats[cls].field++"
IncAll(stats, labels, field) ==
    [c \in DOMAIN stats |->
        IF c \in Range(labels) THEN [stats[c] EXCEPT ![field] = @ + 1] ELSE stats[c]]

\* classStats after the rsvps loop, which creates the missing entries
CountRsvps(stats, labels) ==
    LET zero == [rsvps |-> 0, becamePatients |-> 0, classDroveIt |-> 0]
        all == [c \in DOMAIN stats \cup Range(labels) |->
                   IF c \in DOMAIN stats THEN stats[c] ELSE zero]
    IN  IncAll(all, labels, "rsvps")

\* the verdict of the timestamp comparison of the class sequencing block
Sequence(lead) ==
    LET classTimestamp == lead.firstSeen
        hasReg == lead.registrationTimestamp /= ""
        regTimestamp == NewDate(lead.registrationTimestamp)
    IN  IF classTimestamp /= NaN /\ hasReg /\ regTimestamp /= NaN
        THEN IF classTimestamp < regTimestamp THEN "class_first" ELSE "registration_first"
        ELSE IF ~hasReg THEN "class_first" ELSE "none"

\* one iteration of "for (const lead of unifiedLeads)"
MatchLead ==
    /\ pc = "match"
    /\ matchPos <= Len(leads)
    /\ LET lead == leads[matchPos]
           src == lead.attribution
           r == ResolveLead(lead, ehrPatients)
           patient == r.patient
           claim == IsNewClaim(patient, ehrPatients, matchedPatientIds)
           thisWeek == claim /\ InWindow(ehrPatients[patient].first_visit_date, today)
           counted == src \in DOMAIN bySource
           attended == Len(lead.classesAttended) > 0
           seq == IF attended
                  THEN IF patient /= 0 THEN Sequence(lead) ELSE "class_only"
                  ELSE IF patient /= 0 THEN "practice_only" ELSE "none"
           stats1 == IF attended THEN CountRsvps(classStats, lead.classesAttended)
                     ELSE classStats
           stats2 == IF attended /\ patient /= 0
                     THEN IncAll(stats1, lead.classesAttended, "becamePatients")
                     ELSE stats1
           stats3 == IF attended /\ patient /= 0 /\ seq = "class_first"
                     THEN IncAll(stats2, lead.classesAttended, "classDroveIt")
                     ELSE stats2
       IN  /\ resolved' = r
           /\ matchBy' = IF r.matchTier = "none" THEN matchBy
                         ELSE [matchBy EXCEPT ![r.matchTier] = @ + 1]
           /\ matchedPatientIds' =
                 IF claim THEN matchedPatientIds \cup {ehrPatients[patient].patient_id}
                 ELSE matchedPatientIds
           /\ thisWeekPatientIds' =
                 IF thisWeek THEN thisWeekPatientIds \cup {ehrPatients[patient].patient_id}
                 ELSE thisWeekPatientIds
           /\ bySource' =
                 IF counted
                 THEN [bySource EXCEPT
                         ![src].total = @ + 1,
                         ![src].matched = IF claim THEN @ + 1 ELSE @,
                         ![src].thisWeek = IF thisWeek THEN @ + 1 ELSE @]
                 ELSE bySource
           /\ claims' = IF claim
                        THEN claims \cup {<<matchPos, ehrPatients[patient].patient_id>>}
                        ELSE claims
           /\ classStats' = stats3
           /\ sequencing' = IF seq = "none" THEN sequencing
                            ELSE [sequencing EXCEPT ![seq] = @ + 1]
    /\ matchPos' = matchPos + 1
    /\ UNCHANGED <<ehrPatients, today, matchOut>>
    /\ UNCHANGED <<leadVars, funnelVars, phoneVars, classifyVars, clockVars>>

\* faulty variant: every row in the window is unattributed
Unattributed_Unfiltered(pats, weekIds, day) ==
    LET inWeek(p) == InWindow(p.first_visit_date, day)
    IN  Len(SelectSeq(pats, inWeek))

\* unattributed: the rows in the window whose patient_id is not in thisWeekPatientIds
Unattributed(pats, weekIds, day) ==
    LET inWeek(p) == InWindow(p.first_visit_date, day)
        allEhrThisWeek == SelectSeq(pats, inWeek)
        unclaimed(p) == p.patient_id \notin weekIds
    IN  Len(SelectSeq(allEhrThisWeek, unclaimed))

\* the code after the loop: unattributed, classAttendees, the returned object
FinishMatch ==
    /\ pc = "match"
    /\ matchPos > Len(leads)
    /\ LET attendee(l) == Len(l.classesAttended) > 0
           classAttendeePhones ==
               {leads[k].phone : k \in {j \in 1..Len(leads) :
                                          attendee(leads[j]) /\ leads[j].phone /= ""}}
       IN  matchOut' =
             [totalLeads |-> Len(leads),
              totalMatchedToEHR |-> Cardinality(matchedPatientIds),
              thisWeekNewPatients |-> Cardinality(thisWeekPatientIds),
              unattributed |-> Unattributed(ehrPatients, thisWeekPatientIds, today),
              classAttendees |-> [totalRows |-> Len(SelectSeq(leads, attendee)),
                                  unique |-> Cardinality(classAttendeePhones)]]
    /\ pc' = "matched"
    /\ UNCHANGED <<dom, n, rsvpByPhone, rsvpByEmail, deduped, rowSources, rowDates, leads,
                   byPhone, byEmail, classPos, last, folded, contrib, seenDates, foldedTo>>
    /\ UNCHANGED <<ehrPatients, today, matchPos, matchedPatientIds, thisWeekPatientIds,
                   matchBy, bySource, classStats, sequencing, resolved, claims>>
    /\ UNCHANGED <<funnelVars, phoneVars, classifyVars, clockVars>>

NextMatch == MatchLead \/ FinishMatch

NoResult == [totalLeads |-> -1]

\* main before the sheets are parsed
NoFunnels ==
    /\ submissions = <<>>
    /\ expLeads = <<>>
    /\ registrationFunnel = NoResult
    /\ expectingFunnel = NoResult

\* no call of normalizePhone yet
NoPhone ==
    /\ rawPhone = <<>>
    /\ normalized = <<>>

\* no call of a classifier yet
NoClassify ==
    /\ classifyArgs = <<>>
    /\ classified = ""

\* the clock at the start of a run; no decision has read it yet
ClockStart(t) ==
    /\ clock = t
    /\ nows = {}

\* the state of matchLeadsToEHR before its loop, for given EHR rows and today
MatchStart(pats, day) ==
    /\ ehrPatients = pats
    /\ today = day
    /\ matchPos = 1
    /\ matchedPatientIds = {}
    /\ thisWeekPatientIds = {}
    /\ matchBy = [phone |-> 0, email |-> 0, name |-> 0]
    /\ bySource = [src \in Range(ATTRIBUTION_PRIORITY) |->
                      [total |-> 0, matched |-> 0, thisWeek |-> 0]]
    /\ classStats = EmptyMap
    /\ sequencing = [class_first |-> 0, registration_first |-> 0, class_only |-> 0,
                     practice_only |-> 0]
    /\ resolved = [patient |-> 0, matchTier |-> "none"]
    /\ claims = {}
    /\ matchOut = NoResult

\* unified leads as buildUnifiedLeadList makes them: a class signup with phone and
\* email, an ad lead with a phone only, a registration with an email only, a
\* tracker-only couple without keys, a keyless class signup that also registered, an
\* ad lead that registered with a phone, an email and a name of three households,
\* and a tracker-only parent without keys
SampleLeads ==
    {FoldClassEntry(NewEntry("9085550134", "a@x.com", "Tina Kang"),
                    [name |-> "Tina Kang", referralSource |-> "instagram",
                     referralRaw |-> "Instagram", timestamp |-> "2026-01-05",
                     classesAttended |-> <<"BSCWI Jan">>]),
     FoldFBEntry(NewEntry("9085550177", "", ""), [date |-> "2026-01-12"]),
     FoldFormEntry(NewEntry("", "b@x.com", "Kunal Kang"),
                   [name |-> "Kunal Kang", timestamp |-> "2026-01-12",
                    office |-> "Warren", status |-> "scheduled"]),
     FoldExpEntry(NewEntry("", "", "Tina Kang and Kunalajit (Kunal) Kang"),
                  [name |-> "Tina Kang and Kunalajit (Kunal) Kang",
                   timestamp |-> "1/5/2026", office |-> "Warren", stage |-> "declined"]),
     FoldFormEntry(
         FoldClassEntry(NewEntry("", "", "Uma Rao"),
                        [name |-> "Uma Rao", referralSource |-> "unknown",
                         referralRaw |-> "", timestamp |-> "2026-01-12",
                         classesAttended |-> <<"BSCWI Jan", "BSCWI Feb">>]),
         [name |-> "Uma Rao", timestamp |-> "2026-01-05", office |-> "",
          status |-> "not_contacted"]),
     FoldFormEntry(
         FoldFBEntry(NewEntry("9085550177", "a@x.com", ""), [date |-> "2026-01-05"]),
         [name |-> "Uma Rao", timestamp |-> "2026-01-12", office |-> "",
          status |-> "scheduled"]),
     FoldExpEntry(NewEntry("", "", "Kunal Kang"),
                  [name |-> "Kunal Kang", timestamp |-> "1/12/2026", office |-> "",
                   stage |-> "not_contacted"])}

\* rows of the newPatientsForMatching query: a household with two phones (one with
\* its country code) and two emails, a second family that shares a phone and a
\* surname with it, a patient without phone or email, and a row without patient_id
SamplePatients ==
    {[patient_id |-> 1, first_visit_date |-> 15 * DAY,
      phone1 |-> "19085550134", phone2 |-> "9085550177", phone3 |-> "", phone4 |-> "",
      contact_phone |-> "5550134", contact_email |-> "a@x.com; b@x.com",
      contact_last_name |-> "kang", contact_first_name |-> "tina",
      patient_last_name |-> "kang", patient_first_name |-> "kunal"],
     [patient_id |-> 2, first_visit_date |-> 10 * DAY,
      phone1 |-> "9085550177", phone2 |-> "", phone3 |-> "", phone4 |-> "",
      contact_phone |-> "", contact_email |-> "b@x.com",
      contact_last_name |-> "kang", contact_first_name |-> "",
      patient_last_name |-> "rao", patient_first_name |-> "uma"],
     [patient_id |-> 3, first_visit_date |-> 13 * DAY,
      phone1 |-> "", phone2 |-> "", phone3 |-> "", phone4 |-> "",
      contact_phone |-> "", contact_email |-> "",
      contact_last_name |-> "x", contact_first_name |-> "",
      patient_last_name |-> "rao", patient_first_name |-> "kunal"],
     [patient_id |-> NoId, first_visit_date |-> 15 * DAY,
      phone1 |-> "9085550177", phone2 |-> "", phone3 |-> "", phone4 |-> "",
      contact_phone |-> "", contact_email |-> "",
      contact_last_name |-> "", contact_first_name |-> "",
      patient_last_name |-> "", patient_first_name |-> ""]}

\* the lists of at most k distinct elements of S
ListsOf(S, k) ==
    {q \in UNION {[1..m -> S] : m \in 0..k} :
        \A i, j \in 1..Len(q) : i /= j => q[i] /= q[j]}

NoDom ==
    [phones |-> {}, emails |-> {}, names |-> {}, dates |-> {}, expDates |-> {},
     offices |-> {}, refs |-> {}, tabs |-> {}, statuses |-> {}, stages |-> {}]

\* buildUnifiedLeadList has returned ls: its locals are gone
LeadsBuilt(ls) ==
    /\ n = 0
    /\ rsvpByPhone = EmptyMap
    /\ rsvpByEmail = EmptyMap
    /\ deduped = <<>>
    /\ rowSources = <<>>
    /\ rowDates = <<>>
    /\ leads = ls
    /\ byPhone = EmptyMap
    /\ byEmail = EmptyMap
    /\ classPos = 1
    /\ last = NoRecord
    /\ folded = {}
    /\ contrib = [i \in 1..Len(ls) |-> {}]
    /\ seenDates = [i \in 1..Len(ls) |-> {}]
    /\ foldedTo = {}

InitMatch ==
    /\ pc = "match"
    /\ dom = NoDom
    /\ \E ls \in ListsOf(SampleLeads, MaxLeads) : LeadsBuilt(ls)
    /\ \E pats \in ListsOf(SamplePatients, MaxPatients) : MatchStart(pats, Midnight(Now))
    /\ NoFunnels
    /\ NoPhone
    /\ NoClassify
    /\ ClockStart(Now)

----------------------------------------------------------------------------
(* Funnel analysis *)

STAGE_LEVEL ==
    [not_contacted |-> 0, left_message |-> 1, contacted |-> 2, in_progress |-> 2,
     other |-> 2, pending_docs |-> 3, ready_to_schedule |-> 4, scheduled |-> 5,
     due_for_pe |-> 5, declined |-> -1, unable_to_reach |-> -2, on_hold |-> -3]

\* the values classifyFormStatus returns
FormStatuses ==
    {"not_contacted", "scheduled", "declined", "unable_to_reach", "left_message",
     "pending_docs", "ready_to_schedule", "due_for_pe", "contacted", "on_hold",
     "test", "in_progress", "other"}

\* Math.round(a / b * 100) for a >= 0, b > 0
RoundPct(a, b) == (200 * a + b) \div (2 * b)

\* faulty variant: an exit state counts from its level upwards
ReachedLevel_ExitUpwards(status, minLevel) ==
    IF status \notin DOMAIN STAGE_LEVEL THEN FALSE
    ELSE IF STAGE_LEVEL[status] >= 0 THEN STAGE_LEVEL[status] >= minLevel
    ELSE IF status = "declined" THEN minLevel >= 2
    ELSE IF status = "unable_to_reach" THEN minLevel >= 1
    ELSE IF status = "on_hold" THEN minLevel >= 2
    ELSE FALSE

\* faulty variant: every exit state counts as 'connected' (level 2)
ReachedLevel_AllExitsTwo(status, minLevel) ==
    IF status \notin DOMAIN STAGE_LEVEL THEN FALSE
    ELSE IF STAGE_LEVEL[status] >= 0 THEN STAGE_LEVEL[status] >= minLevel
    ELSE minLevel <= 2

\* countAtLevel: the filter predicate
ReachedLevel(status, minLevel) ==
    IF status \notin DOMAIN STAGE_LEVEL THEN FALSE
    ELSE IF STAGE_LEVEL[status] >= 0 THEN STAGE_LEVEL[status] >= minLevel
    ELSE IF status = "declined" THEN minLevel <= 2
    ELSE IF status = "unable_to_reach" THEN minLevel <= 1
    ELSE IF status = "on_hold" THEN minLevel <= 2
    ELSE FALSE

\* countAtLevel
CountAtLevel(active, minLevel) ==
    LET reached(sub) == ReachedLevel(sub.status, minLevel)
    IN  Len(SelectSeq(active, reached))

\* the loop that adds pctOfPrev and pctOfTotal to the rows after the first, and
\* pctOfTotal = 100 to the first
WithRates(rows, total) ==
    [i \in 1..Len(rows) |->
        IF i = 1 THEN [stage |-> rows[i].stage, count |-> rows[i].count, pctOfTotal |-> 100]
        ELSE [stage |-> rows[i].stage, count |-> rows[i].count,
              pctOfPrev |-> IF rows[i - 1].count > 0
                            THEN RoundPct(rows[i].count, rows[i - 1].count) ELSE 0,
              pctOfTotal |-> IF total > 0 THEN RoundPct(rows[i].count, total) ELSE 0]]

NoDrop == [from |-> "", to |-> "", rate |-> -1, lost |-> 0]

\* the biggest drop-off loop, from row i on, with the lowest rate so far
RECURSIVE BiggestDropFrom(_, _, _, _)
BiggestDropFrom(cf, i, lowestRate, biggestDrop) ==
    IF i > Len(cf) THEN biggestDrop
    ELSE IF cf[i].pctOfPrev < lowestRate
         THEN BiggestDropFrom(cf, i + 1, cf[i].pctOfPrev,
                              [from |-> cf[i - 1].stage, to |-> cf[i].stage,
                               rate |-> cf[i].pctOfPrev,
                               lost |-> cf[i - 1].count - cf[i].count])
         ELSE BiggestDropFrom(cf, i + 1, lowestRate, biggestDrop)

BiggestDrop(cf) == BiggestDropFrom(cf, 2, 100, NoDrop)

\* faulty variant: the exit states have effective level 0
EffectiveLevel_ExitsZero(status) ==
    IF status \in DOMAIN STAGE_LEVEL /\ STAGE_LEVEL[status] >= 0 THEN STAGE_LEVEL[status]
    ELSE 0

\* effectiveLevel of the by-office loop
EffectiveLevel(status) ==
    IF status \in DOMAIN STAGE_LEVEL /\ STAGE_LEVEL[status] >= 0 THEN STAGE_LEVEL[status]
    ELSE IF status = "declined" THEN 2
    ELSE IF status = "unable_to_reach" THEN 1
    ELSE IF status = "on_hold" THEN 2
    ELSE 0

\* sub.office || 'Unknown'
OfficeOf(rec) == IF rec.office /= "" THEN rec.office ELSE "Unknown"

\* byOffice of analyzeRegistrationFunnel
RegistrationByOffice(active) ==
    [o \in {OfficeOf(active[i]) : i \in 1..Len(active)} |->
        LET inOffice(sub) == OfficeOf(sub) = o
            mine == SelectSeq(active, inOffice)
            atLeast1(sub) == EffectiveLevel(sub.status) >= 1
            atLeast2(sub) == EffectiveLevel(sub.status) >= 2
            atLeast3(sub) == EffectiveLevel(sub.status) >= 3
            atLeast5(sub) == EffectiveLevel(sub.status) >= 5
            total == Len(mine)
            contactAttempted == Len(SelectSeq(mine, atLeast1))
            scheduled == Len(SelectSeq(mine, atLeast5))
        IN  [total |-> total,
             contactAttempted |-> contactAttempted,
             connected |-> Len(SelectSeq(mine, atLeast2)),
             docsReceived |-> Len(SelectSeq(mine, atLeast3)),
             scheduled |-> scheduled,
             contactRate |-> IF total > 0 THEN RoundPct(contactAttempted, total) ELSE 0,
             scheduledRate |-> IF total > 0 THEN RoundPct(scheduled, total) ELSE 0]]

\* the stuck filters of analyzeRegistrationFunnel
StuckCount(active, status, days, nowv) ==
    LET stuck(sub) == /\ sub.status = status
                      /\ NewDate(sub.timestamp) /= NaN
                      /\ nowv - NewDate(sub.timestamp) > days * DAY
    IN  Len(SelectSeq(active, stuck))

\* analyzeRegistrationFunnel
AnalyzeRegistrationFunnel(subs, nowv) ==
    LET notTest(sub) == sub.status /= "test"
        active == SelectSeq(subs, notTest)
        total == Len(active)
        count(status) == LET is(sub) == sub.status = status IN Len(SelectSeq(active, is))
        cumulativeFunnel ==
            WithRates(<<[stage |-> "Submitted", count |-> total],
                        [stage |-> "Contact Attempted", count |-> CountAtLevel(active, 1)],
                        [stage |-> "Connected", count |-> CountAtLevel(active, 2)],
                        [stage |-> "Docs Received", count |-> CountAtLevel(active, 3)],
                        [stage |-> "Ready to Schedule", count |-> CountAtLevel(active, 4)],
                        [stage |-> "Scheduled", count |-> CountAtLevel(active, 5)]>>, total)
    IN  [total |-> total,
         cumulativeFunnel |-> cumulativeFunnel,
         currentCounts |-> [st \in {active[i].status : i \in 1..Len(active)} |-> count(st)],
         exits |-> [declined |-> count("declined"),
                    unableToReach |-> count("unable_to_reach"),
                    onHold |-> count("on_hold"),
                    total |-> count("declined") + count("unable_to_reach")
                              + count("on_hold")],
         stuck |-> [notContacted14d |-> StuckCount(active, "not_contacted", 14, nowv),
                    leftMessage21d |-> StuckCount(active, "left_message", 21, nowv),
                    pendingDocs30d |-> StuckCount(active, "pending_docs", 30, nowv)],
         biggestDrop |-> BiggestDrop(cumulativeFunnel),
         byOffice |-> RegistrationByOffice(active)]

\* the values classifyExpectingLead returns
ExpectingStages ==
    {"declined", "scheduled_upcoming", "scheduled_past", "pending_response",
     "left_message", "contacted", "not_contacted", "other"}

EXP_LEVEL ==
    [not_contacted |-> 0, left_message |-> 1, pending_response |-> 2,
     scheduled_upcoming |-> 3, scheduled_past |-> 4, declined |-> -1, other |-> 1]

\* faulty variant: a declined lead counts as having responded (level 2)
ExpReachedLevel_DeclinedTwo(stage, minLevel) ==
    IF stage \notin DOMAIN EXP_LEVEL THEN FALSE
    ELSE IF EXP_LEVEL[stage] >= 0 THEN EXP_LEVEL[stage] >= minLevel
    ELSE IF stage = "declined" THEN minLevel <= 2
    ELSE FALSE

\* countExpAtLevel: the filter predicate
ExpReachedLevel(stage, minLevel) ==
    IF stage \notin DOMAIN EXP_LEVEL THEN FALSE
    ELSE IF EXP_LEVEL[stage] >= 0 THEN EXP_LEVEL[stage] >= minLevel
    ELSE IF stage = "declined" THEN minLevel <= 1
    ELSE FALSE

\* countExpAtLevel
CountExpAtLevel(ls, minLevel) ==
    LET reached(l) == ExpReachedLevel(l.stage, minLevel)
    IN  Len(SelectSeq(ls, reached))

\* Math.floor((now - submitted) / (1000 * 60 * 60 * 24))
DaysSince(nowv, t) == (nowv - t) \div DAY

\* Math.round(a / b) for b > 0
RoundDiv(a, b) == (2 * a + b) \div (2 * b)

RECURSIVE SumDays(_, _)
SumDays(ls, nowv) ==
    IF ls = <<>> THEN 0
    ELSE DaysSince(nowv, ParseDateLoose(Head(ls).timestamp)) + SumDays(Tail(ls), nowv)

\* stageCounts of analyzeExpectingFunnel; avgDays is NaN where the code has null
StageCounts(ls, nowv) ==
    [st \in {ls[i].stage : i \in 1..Len(ls)} |->
        LET inStage(l) == l.stage = st
            dated(l) == l.stage = st /\ ParseDateLoose(l.timestamp) /= NaN
            withDays == SelectSeq(ls, dated)
        IN  [count |-> Len(SelectSeq(ls, inStage)),
             avgDays |-> IF Len(withDays) > 0
                         THEN RoundDiv(SumDays(withDays, nowv), Len(withDays)) ELSE NaN]]

\* l.stage.startsWith('scheduled')
StartsWithScheduled(stage) == stage \in {"scheduled", "scheduled_upcoming", "scheduled_past"}

\* byOffice of analyzeExpectingFunnel
ExpectingByOffice(ls) ==
    [o \in {OfficeOf(ls[i]) : i \in 1..Len(ls)} |->
        LET inOffice(l) == OfficeOf(l) = o
            scheduled(l) == OfficeOf(l) = o /\ l.stage \in {"scheduled_upcoming", "scheduled_past"}
            notContacted(l) == OfficeOf(l) = o /\ l.stage = "not_contacted"
        IN  [total |-> Len(SelectSeq(ls, inOffice)),
             scheduled |-> Len(SelectSeq(ls, scheduled)),
             notContacted |-> Len(SelectSeq(ls, notContacted))]]

\* analyzeExpectingFunnel
AnalyzeExpectingFunnel(ls, nowv) ==
    LET total == Len(ls)
        cumulativeFunnel ==
            WithRates(<<[stage |-> "On Tracker", count |-> total],
                        [stage |-> "Contacted", count |-> CountExpAtLevel(ls, 1)],
                        [stage |-> "Responded", count |-> CountExpAtLevel(ls, 2)],
                        [stage |-> "NPI Scheduled", count |-> CountExpAtLevel(ls, 3)],
                        [stage |-> "Visit Completed", count |-> CountExpAtLevel(ls, 4)]>>,
                      total)
        stuck(l) ==
            LET submitted == ParseDateLoose(l.timestamp)
            IN  /\ submitted /= NaN
                /\ \/ l.stage = "not_contacted" /\ DaysSince(nowv, submitted) > 14
                   \/ l.stage = "left_message" /\ DaysSince(nowv, submitted) > 21
        twoWeeks == nowv + 14 * DAY
        dueSoon(l) == LET due == ParseDateLoose(l.dueDate)
                      IN  due /= NaN /\ due >= nowv /\ due <= twoWeeks
        dueSoonOpen(l) == dueSoon(l) /\ ~StartsWithScheduled(l.stage)
        pastDue(l) == LET due == ParseDateLoose(l.dueDate)
                      IN  /\ due /= NaN /\ due < nowv
                          /\ ~StartsWithScheduled(l.stage) /\ l.stage /= "declined"
        drop == BiggestDrop(cumulativeFunnel)
    IN  [totalLeads |-> total,
         cumulativeFunnel |-> cumulativeFunnel,
         stageCounts |-> StageCounts(ls, nowv),
         stuckCount |-> Len(SelectSeq(ls, stuck)),
         biggestDrop |-> IF drop = NoDrop THEN NoDrop
                         ELSE [from |-> drop.from, to |-> drop.to, rate |-> drop.rate],
         byOffice |-> ExpectingByOffice(ls),
         upcomingDueDatesIn2Weeks |-> Len(SelectSeq(ls, dueSoonOpen)),
         upcomingDueDatesIn2WeeksAll |-> Len(SelectSeq(ls, dueSoon)),
         pastDueDatesNotScheduled |-> Len(SelectSeq(ls, pastDue))]

\* input sets of the funnels: every status and stage on rows of one age and office,
\* and rows of several ages, offices and due dates in the stages that can be stuck
StageDom ==
    [statuses |-> FormStatuses, stages |-> ExpectingStages,
     timestamps |-> {"1/5/2026"}, offices |-> {"Warren"}, dueDates |-> {""}]

AgeDom ==
    [statuses |-> {"not_contacted", "left_message", "test"},
     stages |-> {"not_contacted", "scheduled_upcoming"},
     timestamps |-> {"1/5/2026", "1/12/2026"}, offices |-> {"", "Warren"},
     dueDates |-> {"1/5/2026", "1/26/2026"}]

\* rows in the stages that can be stuck, aged 14, 21 and 30 days and 9 hours at the
\* run, and rows with a timestamp that is no date
StuckDom ==
    [statuses |-> {"not_contacted", "left_message", "pending_docs"},
     stages |-> {"not_contacted", "left_message"},
     timestamps |-> {"1/6/2026", "12/30/2025", "12/21/2025", "n/a"},
     offices |-> {"Warren"}, dueDates |-> {""}]

InitFunnel ==
    /\ pc = "parseForm"
    /\ dom \in {StageDom, AgeDom, StuckDom}
    /\ LeadsBuilt(<<>>)
    /\ MatchStart(<<>>, Midnight(Now))
    /\ NoFunnels
    /\ NoPhone
    /\ NoClassify
    /\ ClockStart(Now)

\* one iteration of the loop of parseFormResponses
ParseFormRow ==
    /\ pc = "parseForm"
    /\ Len(submissions) < MaxFunnelRows
    /\ \E ts \in dom.timestamps, o \in dom.offices, st \in dom.statuses :
          submissions' = Append(submissions, [timestamp |-> ts, office |-> o, status |-> st])
    /\ UNCHANGED <<expLeads, registrationFunnel, expectingFunnel>>
    /\ UNCHANGED <<leadVars, matchVars, phoneVars, classifyVars, clockVars>>

\* parseFormResponses returns
EndForms ==
    /\ pc = "parseForm"
    /\ pc' = "parseExp"
    /\ UNCHANGED <<dom, n, rsvpByPhone, rsvpByEmail, deduped, rowSources, rowDates, leads, byPhone,
                   byEmail, classPos, last, folded, contrib, seenDates, foldedTo>>
    /\ UNCHANGED <<matchVars, funnelVars, phoneVars, classifyVars, clockVars>>

\* one iteration of the loop of parseExpectingParents
ParseExpectingRow ==
    /\ pc = "parseExp"
    /\ Len(submissions) + Len(expLeads) < MaxFunnelRows
    /\ \E ts \in dom.timestamps, o \in dom.offices, due \in dom.dueDates,
          st \in dom.stages :
          expLeads' = Append(expLeads, [timestamp |-> ts, office |-> o, dueDate |-> due,
                                        stage |-> st])
    /\ UNCHANGED <<submissions, registrationFunnel, expectingFunnel>>
    /\ UNCHANGED <<leadVars, matchVars, phoneVars, classifyVars, clockVars>>

\* step 7 of main: analyzeRegistrationFunnel and analyzeExpectingFunnel
AnalyzeFunnels ==
    /\ pc = "parseExp"
    /\ pc' = "analyzed"
    /\ registrationFunnel' = AnalyzeRegistrationFunnel(submissions, clock)
    /\ expectingFunnel' = AnalyzeExpectingFunnel(expLeads, clock)
    /\ UNCHANGED <<submissions, expLeads>>
    /\ UNCHANGED <<dom, n, rsvpByPhone, rsvpByEmail, deduped, rowSources, rowDates, leads, byPhone,
                   byEmail, classPos, last, folded, contrib, seenDates, foldedTo>>
    /\ UNCHANGED <<matchVars, phoneVars, classifyVars, clockVars>>

NextFunnel == ParseFormRow \/ EndForms \/ ParseExpectingRow \/ AnalyzeFunnels

----------------------------------------------------------------------------
(* normalizePhone *)

\* normalizePhone
NormalizePhone(cs) ==
    IF cs = <<>> THEN <<>>
    ELSE LET digits == SelectSeq(cs, IsDigit)
         IN  IF Len(digits) >= 10 THEN SliceLast(digits, 10) ELSE digits

\* raw phone cells: a number as people type it
SamplePhones ==
    {Chars(""), Chars("555-0134"), Chars("9085550134"), Chars("(908) 555-0134"),
     Chars("+1 908 555 0134")}

\* the characters that follow the number
TrailingChars == {" ", "x", "2", "7"}

\* the strings of at most k characters of S
StringsOf(S, k) == UNION {[1..m -> S] : m \in 0..k}

InitPhone ==
    /\ pc = "phone"
    /\ dom = NoDom
    /\ LeadsBuilt(<<>>)
    /\ MatchStart(<<>>, Midnight(Now))
    /\ NoFunnels
    /\ NoPhone
    /\ NoClassify
    /\ ClockStart(Now)

\* a call normalizePhone(raw) by one of the parsers
CallNormalizePhone ==
    /\ pc = "phone"
    /\ \E number \in SamplePhones, trailing \in StringsOf(TrailingChars, MaxTrailing) :
          rawPhone' = number \o trailing
    /\ normalized' = NormalizePhone(rawPhone')
    /\ pc' = "normalized"
    /\ UNCHANGED <<dom, n, rsvpByPhone, rsvpByEmail, deduped, rowSources, rowDates, leads, byPhone,
                   byEmail, classPos, last, folded, contrib, seenDates, foldedTo>>
    /\ UNCHANGED <<matchVars, funnelVars, classifyVars, clockVars>>

\* the call on the cell of the scenario
CallNormalizePhoneExt ==
    /\ pc = "phone"
    /\ rawPhone' = Chars("(908) 555-0134 ext 2")
    /\ normalized' = NormalizePhone(rawPhone')
    /\ pc' = "normalized"
    /\ UNCHANGED <<dom, n, rsvpByPhone, rsvpByEmail, deduped, rowSources, rowDates, leads, byPhone,
                   byEmail, classPos, last, folded, contrib, seenDates, foldedTo>>
    /\ UNCHANGED <<matchVars, funnelVars, classifyVars, clockVars>>

NextPhone == CallNormalizePhone \/ CallNormalizePhoneExt

----------------------------------------------------------------------------
(* Calls of the classifiers *)

\* the values classifyReferralSource returns
ReferralChannels ==
    {"facebook_ad", "instagram", "employee_referral", "google_search", "email_marketing",
     "word_of_mouth", "website", "unknown"}

PadChars == {" ", "x"}

\* cells: no cell, and each sample text between leading and trailing characters
Cells(samples) ==
    {Undefined} \cup
    {pre \o Text(sample) \o post :
        sample \in samples, pre \in StringsOf(PadChars, MaxPad),
        post \in StringsOf(PadChars, MaxPad)}

ReferralSamples ==
    {"", "Meta", "leads", "Facebook ad", "FB Ad", "Instagram", "IG", "ig ad",
     "Marina Hanna told us", "staff member and a friend", "Googling", "listserv",
     "email", "Email blast", "a friend", "Word of mouth", "form", "Your website",
     "Watchung Peds", "mom group", "big", "Are you expecting?"}

StatusSamples ==
    {"", "Scheduled 1/5", "sch 01/10", "NPI scheduled", "Declined", "unable to reach",
     "LMTCB", "L/M 1/3", "email sent", "Pending MR + pending ins", "NP process complete",
     "ok to sch", "Due for PE", "PRN", "spoke w/ mom", "NICU", "test", "01/05/26 called",
     "1/5/26 called", "see notes"}

NpiSamples ==
    {"", "Declined", "1/26/2026", "1/5/2026", "01/20/2026- WRN", "email sent", "Pending",
     "No", "2nd call", "maybe", "1/5", "13/1/2026", "1//2026"}

AptSamples == {"", "Not scheduled", "01/20/2026- WRN", "1/26/2026", "1/5/2026", "maybe", "TBD"}

\* the times of the calls: the day before the run, and the run
ClockSamples == {Now - DAY, Now}

InitClassify ==
    /\ pc = "classify"
    /\ dom = NoDom
    /\ LeadsBuilt(<<>>)
    /\ MatchStart(<<>>, Midnight(Now))
    /\ NoFunnels
    /\ NoPhone
    /\ NoClassify
    /\ \E t \in ClockSamples : ClockStart(t)

\* what a call of a classifier leaves alone
ClassifyFrame ==
    /\ UNCHANGED <<dom, n, rsvpByPhone, rsvpByEmail, deduped, rowSources, rowDates, leads, byPhone,
                   byEmail, classPos, last, folded, contrib, seenDates, foldedTo>>
    /\ UNCHANGED <<matchVars, funnelVars, phoneVars, clockVars>>

\* a call classifyReferralSource(text)
CallClassifyReferralSource ==
    /\ pc = "classify"
    /\ \E text \in Cells(ReferralSamples) :
          /\ classifyArgs' = <<text>>
          /\ classified' = ClassifyReferralSource(text)
    /\ pc' = "referral"
    /\ ClassifyFrame

\* a call classifyFormStatus(status)
CallClassifyFormStatus ==
    /\ pc = "classify"
    /\ \E status \in Cells(StatusSamples) :
          /\ classifyArgs' = <<status>>
          /\ classified' = ClassifyFormStatus(status)
    /\ pc' = "formStatus"
    /\ ClassifyFrame

\* a call classifyExpectingLead(npiScheduled, aptScheduled)
CallClassifyExpectingLead ==
    /\ pc = "classify"
    /\ \E npiScheduled \in Cells(NpiSamples), aptScheduled \in Cells(AptSamples) :
          /\ classifyArgs' = <<npiScheduled, aptScheduled>>
          /\ classified' = ClassifyExpectingLead(npiScheduled, aptScheduled)
    /\ pc' = "expecting"
    /\ ClassifyFrame

NextClassify ==
    CallClassifyReferralSource \/ CallClassifyFormStatus \/ CallClassifyExpectingLead

----------------------------------------------------------------------------
(* Specifications *)

\* fetchAllClassRSVPs and buildUnifiedLeadList
----------------------------------------------------------------------------
(* main: the steps of a run that read the clock *)

\* the NPI and appointment cells of the tracker rows of a run
RunNpiCells == {Undefined, Text("Declined"), Text("1/26/2026")}

RunAptCells == {Undefined, Text("01/20/2026- WRN")}

InitRun ==
    /\ pc = "main"
    /\ dom = NoDom
    /\ LeadsBuilt(<<>>)
    /\ MatchStart(<<>>, Midnight(Now))
    /\ NoFunnels
    /\ NoPhone
    /\ NoClassify
    /\ ClockStart(Now)

\* what the steps of main modelled here leave alone
RunFrame ==
    /\ UNCHANGED <<dom, n, rsvpByPhone, rsvpByEmail, deduped, rowSources, rowDates, leads,
                   byPhone, byEmail, classPos, last, folded, contrib, seenDates, foldedTo>>
    /\ UNCHANGED <<matchPos, matchedPatientIds, thisWeekPatientIds, matchBy, bySource,
                   classStats, sequencing, resolved, claims>>
    /\ UNCHANGED <<phoneVars, classifyVars>>

\* step 1 of main, one iteration of the loop of parseExpectingParents: the stage is
\* classified now; classifyExpectingLead reads the clock when it compares a date
RunParseExpectingRow ==
    /\ pc = "main"
    /\ Len(expLeads) < MaxFunnelRows
    /\ \E npi \in RunNpiCells, apt \in RunAptCells :
          LET stage == ClassifyExpectingLead(npi, apt)
          IN  /\ expLeads' = Append(expLeads, [timestamp |-> "1/5/2026", office |-> "Warren",
                                               dueDate |-> "", stage |-> stage])
              /\ nows' = IF StartsWithScheduled(stage) THEN nows \cup {clock} ELSE nows
    /\ UNCHANGED <<pc, clock, submissions, registrationFunnel, expectingFunnel,
                   ehrPatients, today, matchOut>>
    /\ RunFrame

\* parseExpectingParents returns; main goes on to await the class sheets, the EHR
\* queries and the ad platform
RunFetch ==
    /\ pc = "main"
    /\ pc' = "main_fetch"
    /\ UNCHANGED <<clock, nows, funnelVars, ehrPatients, today, matchOut>>
    /\ RunFrame

\* an hour passes while main awaits
RunAwait ==
    /\ pc = "main_fetch"
    /\ clock < Now + MaxWait
    /\ clock' = clock + 1
    /\ UNCHANGED <<pc, nows, funnelVars, ehrPatients, today, matchOut>>
    /\ RunFrame

\* step 6 of main: matchLeadsToEHR on the EHR rows fetched, for no unified lead;
\* today is read from the clock
RunMatchLeads ==
    /\ pc = "main_fetch"
    /\ \E pats \in ListsOf(SamplePatients, MaxPatients) :
          /\ ehrPatients' = pats
          /\ today' = Midnight(clock)
          /\ matchOut' = [totalLeads |-> 0,
                          totalMatchedToEHR |-> 0,
                          thisWeekNewPatients |-> 0,
                          unattributed |-> Unattributed(pats, {}, Midnight(clock)),
                          classAttendees |-> [totalRows |-> 0, unique |-> 0]]
    /\ nows' = nows \cup {clock}
    /\ pc' = "main_analyze"
    /\ UNCHANGED <<clock, funnelVars>>
    /\ RunFrame

\* step 7 of main: analyzeExpectingFunnel and analyzeRegistrationFunnel, each with
\* const now = new Date()
RunAnalyzeFunnels ==
    /\ pc = "main_analyze"
    /\ expectingFunnel' = AnalyzeExpectingFunnel(expLeads, clock)
    /\ registrationFunnel' = AnalyzeRegistrationFunnel(submissions, clock)
    /\ nows' = nows \cup {clock}
    /\ pc' = "main_done"
    /\ UNCHANGED <<clock, submissions, expLeads, ehrPatients, today, matchOut>>
    /\ RunFrame

NextRun ==
    RunParseExpectingRow \/ RunFetch \/ RunAwait \/ RunMatchLeads \/ RunAnalyzeFunnels

Init ==
    /\ InitLeads
    /\ MatchStart(<<>>, Midnight(Now))
    /\ NoFunnels
    /\ NoPhone
    /\ NoClassify
    /\ ClockStart(Now)

Next == NextLeads

Spec == Init /\ [][Next]_vars

\* matchLeadsToEHR on the sample leads and EHR rows
SpecMatch == InitMatch /\ [][NextMatch]_vars

\* parseFormResponses, parseExpectingParents and the two funnel analyses
SpecFunnel == InitFunnel /\ [][NextFunnel]_vars

\* normalizePhone
SpecPhone == InitPhone /\ [][NextPhone]_vars

\* classifyReferralSource, classifyFormStatus and classifyExpectingLead
SpecClassify == InitClassify /\ [][NextClassify]_vars

\* the clock reads of a run of main
SpecRun == InitRun /\ [][NextRun]_vars

----------------------------------------------------------------------------
(* Properties of identity resolution and attribution *)

\* rank of a channel in ATTRIBUTION_PRIORITY: lower is more specific
Rank(channel) == IndexOf(ATTRIBUTION_PRIORITY, channel)

\* the highest-ranked channel of a set, 'unknown' for the empty set
Best(chans) ==
    IF chans = {} THEN "unknown"
    ELSE CHOOSE c \in chans : \A c2 \in chans : Rank(c) <= Rank(c2)

LastRecord(l) == [src |-> l.src, phone |-> l.phone, email |-> l.email, name |-> l.name]

\* the step is one iteration of a loop of buildUnifiedLeadList
FoldStep == pc \in {"fb", "class", "form", "exp"} /\ pc' = pc

\* C1 (as claimed): folding a raw record that buildUnifiedLeadList has folded
\* before, whatever its phone, email and name, adds no UnifiedLead.
C1_DedupIdempotence ==
    [][(FoldStep /\ LastRecord(last') \in folded) => (Len(leads') = Len(leads))]_vars

\* C2: no two distinct leads carry the same non-empty phone or the same non-empty
\* email, every key of byPhone/byEmail maps to the one lead that carries it, and a
\* key is never mapped to another lead later.
C2_IdentityUniqueness ==
    /\ [](/\ \A i, j \in 1..Len(leads) :
               i /= j =>
                 /\ leads[i].phone /= "" => leads[i].phone /= leads[j].phone
                 /\ leads[i].email /= "" => leads[i].email /= leads[j].email
          /\ \A p \in DOMAIN byPhone :
               byPhone[p] \in 1..Len(leads) /\ leads[byPhone[p]].phone = p
          /\ \A e \in DOMAIN byEmail :
               byEmail[e] \in 1..Len(leads) /\ leads[byEmail[e]].email = e)
    /\ [][/\ \A p \in DOMAIN byPhone : p \in DOMAIN byPhone' /\ byPhone'[p] = byPhone[p]
          /\ \A e \in DOMAIN byEmail : e \in DOMAIN byEmail' /\ byEmail'[e] = byEmail[e]]_vars

\* a record with a phone no lead carries was resolved by its email to an existing
\* lead, next to another lead
C2_Witness ==
    /\ Len(leads) >= 2
    /\ ~last.created /\ last.idx /= 0
    /\ NormPhone(last.phone) /= ""
    /\ last.phone \notin DOMAIN byPhone
    /\ leads[last.idx].email = last.email

\* C3: once a lead's attribution ranks above 'unknown', folding a record whose
\* channel ranks lower or equal leaves it unchanged, folding one whose channel
\* ranks higher sets it to that channel; no other lead's attribution changes.
C3_AttributionMonotonicity ==
    [][\A i \in 1..Len(leads) :
         (FoldStep /\ Rank(leads[i].attribution) < Rank("unknown")) =>
           IF i = last'.idx /\ last'.channel /= ""
              /\ Rank(last'.channel) < Rank(leads[i].attribution)
           THEN leads'[i].attribution = last'.channel
           ELSE leads'[i].attribution = leads[i].attribution]_vars

\* a lead attributed 'class_only' by a class signup was re-attributed 'website' by a
\* registration form folded later
C3_Witness ==
    /\ last.src = "form" /\ ~last.created
    /\ "class_only" \in Range(leads[last.idx].sources)
    /\ leads[last.idx].attribution = "website"

\* C9: a record with a valid 10-digit phone equal to an existing lead's phone
\* resolves to that lead and creates none, whatever its email.
C9_PhonePriority ==
    [][\A i \in 1..Len(leads) :
         (FoldStep /\ NormPhone(last'.phone) /= "" /\ leads[i].phone = last'.phone) =>
           (last'.idx = i /\ ~last'.created /\ Len(leads') = Len(leads))]_vars

\* a record was resolved by its phone to one lead while its email is indexed to
\* another lead
C9_Witness ==
    /\ ~last.created /\ last.idx /= 0
    /\ NormPhone(last.phone) /= ""
    /\ leads[last.idx].phone = last.phone
    /\ last.email \in DOMAIN byEmail
    /\ byEmail[last.email] /= last.idx

\* C10 (as claimed): when buildUnifiedLeadList returns, each lead's attribution is
\* the highest-ranked channel among the channels of all raw rows that contributed
\* to it, the class-signup rows merged by fetchAllClassRSVPs included.
C10_OrderIndependence ==
    pc = "done" => \A i \in 1..Len(leads) : leads[i].attribution = Best(contrib[i])

----------------------------------------------------------------------------
(* Properties of matchLeadsToEHR *)

RECURSIVE SumMatched(_, _)
SumMatched(stats, srcs) ==
    IF srcs = <<>> THEN 0 ELSE stats[Head(srcs)].matched + SumMatched(stats, Tail(srcs))

\* the lead of the latest iteration resolved to a candidate that an earlier lead claimed
ResolvedToClaimed ==
    /\ resolved.patient /= 0
    /\ \E c \in claims :
         c[1] < matchPos - 1 /\ c[2] = ehrPatients[resolved.patient].patient_id

\* C4: a patient_id is claimed by at most one lead; totalMatchedToEHR and the sum
\* of bySource[*].matched both count the claims; a lead that resolves to a
\* candidate claimed before records no match, so the two totals grow by one for
\* the first of two such leads and not at all for the later one.
C4_ExclusiveMatchClaim ==
    /\ [](/\ \A c1, c2 \in claims : c1[2] = c2[2] => c1 = c2
          /\ Cardinality(matchedPatientIds) = Cardinality(claims)
          /\ SumMatched(bySource, ATTRIBUTION_PRIORITY) = Cardinality(matchedPatientIds)
          /\ matchOut /= NoResult =>
                matchOut.totalMatchedToEHR = Cardinality(claims))
    /\ [][ResolvedToClaimed' =>
            /\ matchedPatientIds' = matchedPatientIds
            /\ claims' = claims
            /\ SumMatched(bySource', ATTRIBUTION_PRIORITY)
                 = SumMatched(bySource, ATTRIBUTION_PRIORITY)]_vars

\* two leads resolved to the same candidate, by different tiers, and the run ended
\* with one match
C4_Witness ==
    /\ ResolvedToClaimed
    /\ resolved.matchTier /= "phone"
    /\ matchOut /= NoResult
    /\ matchOut.totalMatchedToEHR = 1
    /\ Len(leads) = 2

\* C13: an iteration of a loop of buildUnifiedLeadList for a record without
\* phone, email and name creates no lead and changes no lead
C13_KeylessDropped ==
    [][(FoldStep /\ last'.phone = "" /\ last'.email = "" /\ last'.name = "")
          => leads' = leads]_vars

\* the step is one iteration of the loop of matchLeadsToEHR
MatchStep == pc = "match" /\ matchPos' = matchPos + 1

\* the value of a counter of classStats, 0 while the class has no entry
ClassStat(stats, cls, field) == IF cls \in DOMAIN stats THEN stats[cls][field] ELSE 0

C14_MissingIdFails ==
    (\E i \in 1..Len(ehrPatients) : ehrPatients[i].patient_id = NoId)
        => matchOut = NoResult

\* the rows of ehrPatients whose first visit lies in the window of the run
RowsInWindow == {i \in 1..Len(ehrPatients) : InWindow(ehrPatients[i].first_visit_date, today)}

\* C15: the returned 'unattributed' is the number of rows in the window whose
\* patient_id no lead claimed, and, the patient_ids being distinct,
\* thisWeekNewPatients + unattributed is the number of rows in the window
C15_UnattributedCount ==
    pc = "matched" =>
        /\ matchOut.unattributed =
              Cardinality({i \in RowsInWindow :
                              \A c \in claims : c[2] /= ehrPatients[i].patient_id})
        /\ matchOut.thisWeekNewPatients + matchOut.unattributed = Cardinality(RowsInWindow)

\* the run ended with a claimed row and an unclaimed row in the window
C15_Witness ==
    /\ pc = "matched"
    /\ matchOut.thisWeekNewPatients = 1
    /\ matchOut.unattributed = 1
    /\ Cardinality(claims) = 1

\* the rows of ehrPatients that hold the lead's 10-digit phone among the last ten
\* digits of their phones
PhoneCandidates(lead) ==
    {i \in 1..Len(ehrPatients) :
        /\ Len(lead.phone) = 10
        /\ Chars(lead.phone) \in Range(PatientPhones(ehrPatients[i]))}

\* the rows of ehrPatients that hold one of the lead's emails
EmailCandidates(lead) ==
    {i \in 1..Len(ehrPatients) :
        Range(SplitEmails(Chars(lead.email))) \cap Range(PatientEmails(ehrPatients[i])) /= {}}

\* C16: a lead with a phone candidate is resolved by the phone tier to a phone
\* candidate, whatever its email and name would give; a lead without phone candidate
\* and with an email candidate is resolved by the email tier to an email candidate;
\* the name tier resolves only a lead with neither
C16_TierOrder ==
    [][MatchStep =>
          LET lead == leads[matchPos]
          IN  /\ PhoneCandidates(lead) /= {} =>
                    /\ resolved'.matchTier = "phone"
                    /\ resolved'.patient \in PhoneCandidates(lead)
              /\ (PhoneCandidates(lead) = {} /\ EmailCandidates(lead) /= {}) =>
                    /\ resolved'.matchTier = "email"
                    /\ resolved'.patient \in EmailCandidates(lead)
              /\ (PhoneCandidates(lead) = {} /\ EmailCandidates(lead) = {}) =>
                    /\ resolved'.matchTier \in {"name", "none"}
                    /\ resolved'.patient = MatchNameTier(lead, ehrPatients)]_vars

\* a lead was resolved by its phone to one row although its email is on another row
\* only
C16_Witness ==
    /\ matchPos > 1
    /\ resolved.matchTier = "phone"
    /\ EmailCandidates(leads[matchPos - 1]) /= {}
    /\ resolved.patient \notin EmailCandidates(leads[matchPos - 1])

\* the rows of ehrPatients that carry the surname as contact or patient last name
SurnameRows(surname) ==
    {i \in 1..Len(ehrPatients) :
        surname \in {Chars(ehrPatients[i].contact_last_name),
                     Chars(ehrPatients[i].patient_last_name)}}

\* the first letter of the first token of the lead's name, lower-cased
LeadInitial(lead) == ToLowerCase(<<Trim(Chars(lead.name))[1]>>)[1]

\* the rows of S whose first name (the contact's, or else the patient's) starts
\* with the letter
SameInitial(S, letter) ==
    {i \in S : EhrFirst(ehrPatients[i]) /= <<>> /\ EhrFirst(ehrPatients[i])[1] = letter}

\* C17: the surname of "Tina Kang and Kunalajit (Kunal) Kang" is "kang"; a named
\* lead that no phone and no email resolves is matched, among the rows with its
\* surname (longer than one letter), to a row whose first name starts with the
\* lead's first letter if there is one, else to the only patient with that surname
\* if there is exactly one, and else to nobody
C17_NameFallback ==
    /\ [](ExtractLastName(Chars("Tina Kang and Kunalajit (Kunal) Kang")) = Chars("kang"))
    /\ [][(/\ MatchStep
           /\ leads[matchPos].name /= ""
           /\ PhoneCandidates(leads[matchPos]) = {}
           /\ EmailCandidates(leads[matchPos]) = {})
          => LET lead == leads[matchPos]
                 surname == ExtractLastName(Chars(lead.name))
                 rows == IF Len(surname) > 1 THEN SurnameRows(surname) ELSE {}
                 initials == SameInitial(rows, LeadInitial(lead))
                 ids == {ehrPatients[i].patient_id : i \in rows}
             IN  /\ initials /= {} =>
                       resolved' = [patient |-> CHOOSE i \in initials :
                                                    \A j \in initials : i <= j,
                                    matchTier |-> "name"]
                 /\ (initials = {} /\ Cardinality(ids) = 1) =>
                       resolved'.matchTier = "name" /\ resolved'.patient \in rows
                 /\ (initials = {} /\ Cardinality(ids) /= 1) =>
                       resolved' = [patient |-> 0, matchTier |-> "none"]]_vars

\* a lead whose surname is on two rows of different patients, neither with its
\* first letter, was left unmatched
C17_Witness ==
    /\ matchPos > 1
    /\ leads[matchPos - 1].name = "Kunal Kang"
    /\ Cardinality(SurnameRows(Chars("kang"))) = 2
    /\ resolved = [patient |-> 0, matchTier |-> "none"]

\* C18 (as claimed): once name, office, registrationStatus or expectingStage of a
\* lead is non-empty, no record folded later changes it.
C18_WriteOnce ==
    [][FoldStep =>
         \A i \in 1..Len(leads) :
            \A f \in {"name", "office", "registrationStatus", "expectingStage"} :
               leads[i][f] /= "" => leads'[i][f] = leads[i][f]]_vars

\* C19: folding a tracker record changes no other lead; on the lead it resolves to
\* it adds the tag 'expecting_tracker' to sources and changes nothing but sources,
\* name, office, expectingStage and firstSeen; a lead it creates has attribution
\* 'unknown' and no referralDetail; a lead whose only source is the tracker has
\* attribution 'unknown'.
C19_TrackerKeepsAttribution ==
    /\ [](\A i \in 1..Len(leads) :
             Range(leads[i].sources) = {"expecting_tracker"} =>
                leads[i].attribution = "unknown" /\ leads[i].referralDetail = "")
    /\ [][(FoldStep /\ pc = "exp") =>
            LET i == last'.idx
                before == IF last'.created THEN NewEntry(NormPhone(last'.phone),
                                                         NormEmail(last'.email), last'.name)
                          ELSE leads[i]
            IN  /\ \A j \in 1..Len(leads) : j /= i => leads'[j] = leads[j]
                /\ Len(leads') = Len(leads) + (IF last'.created THEN 1 ELSE 0)
                /\ \A f \in {"attribution", "referralDetail", "phone", "email",
                             "classesAttended", "registrationStatus",
                             "registrationTimestamp"} :
                      leads'[i][f] = before[f]
                /\ Range(leads'[i].sources) =
                      Range(before.sources) \cup {"expecting_tracker"}]_vars

\* a tracker record was folded into a lead that an ad had created
C19_Witness ==
    /\ last.src = "exp" /\ ~last.created
    /\ leads[last.idx].attribution = "facebook_ad"
    /\ leads[last.idx].referralDetail = "Facebook Lead Ad"
    /\ leads[last.idx].expectingStage /= ""

\* the instants of the date strings that new Date can parse
Parseable(strs) == {NewDate(str) : str \in strs \ {""}} \ {NaN}

\* the earliest of the parseable dates, null when there is none
Earliest(strs) ==
    IF Parseable(strs) = {} THEN NaN
    ELSE CHOOSE d \in Parseable(strs) : \A e \in Parseable(strs) : d <= e

\* C20 (as claimed): when buildUnifiedLeadList returns, firstSeen of every lead is
\* the earliest parseable date among the raw rows that contributed to it, null when
\* there is none; folding a record with an empty or unparseable date leaves
\* firstSeen of every lead unchanged.
C20_FirstSeenIsMinimum ==
    /\ [](pc = "done" =>
            \A i \in 1..Len(leads) : leads[i].firstSeen = Earliest(seenDates[i]))
    /\ [][(FoldStep /\ Parseable({last'.date}) = {}) =>
            \A i \in 1..Len(leads) : leads'[i].firstSeen = leads[i].firstSeen]_vars

\* C30 (as claimed): all records with the same valid 10-digit phone that
\* buildUnifiedLeadList has folded were folded into the same lead.
C30_SamePhoneSameLead ==
    \A a, b \in foldedTo : a[1] = b[1] => a[2] = b[2]

----------------------------------------------------------------------------
(* Properties of the funnel analyses *)

\* the counts of the rows of a cumulative funnel, first row to last
Counts(funnel) ==
    [i \in 1..Len(funnel.cumulativeFunnel) |-> funnel.cumulativeFunnel[i].count]

NonIncreasing(cs) == \A i \in 1..(Len(cs) - 1) : cs[i] >= cs[i + 1]

\* s without its i-th element
Without(s, i) == SubSeq(s, 1, i - 1) \o SubSeq(s, i + 1, Len(s))

\* what the i-th submission adds to each row of the registration funnel
RegistrationShare(i) ==
    LET with == Counts(registrationFunnel)
        without == Counts(AnalyzeRegistrationFunnel(Without(submissions, i), Now))
    IN  [r \in 1..Len(with) |-> with[r] - without[r]]

\* what the i-th lead adds to each row of the expecting-parent funnel
ExpectingShare(i) ==
    LET with == Counts(expectingFunnel)
        without == Counts(AnalyzeExpectingFunnel(Without(expLeads, i), Now))
    IN  [r \in 1..Len(with) |-> with[r] - without[r]]

\* C5: after the analyses, the counts of the cumulative funnel of the registration
\* funnel and of the expecting-parent funnel never increase from one row to the next
C5_CumulativeMonotonicity ==
    pc = "analyzed" =>
        /\ NonIncreasing(Counts(registrationFunnel))
        /\ NonIncreasing(Counts(expectingFunnel))

\* both funnels were analysed on rows that include an exit state, and both lose
\* records between the first and the last row
C5_Witness ==
    /\ pc = "analyzed"
    /\ registrationFunnel.exits.total > 0
    /\ \E i \in 1..Len(expLeads) : expLeads[i].stage = "declined"
    /\ Counts(registrationFunnel)[1] > Counts(registrationFunnel)[6]
    /\ Counts(registrationFunnel)[6] > 0
    /\ Counts(expectingFunnel)[1] > Counts(expectingFunnel)[5]

C7_DeclinedCountsAsResponded ==
    pc = "analyzed" =>
        \A i \in 1..Len(expLeads) :
            expLeads[i].stage = "declined" => ExpectingShare(i) = <<1, 1, 1, 0, 0>>

\* C7, amended: in the expecting-parent funnel a declined lead is counted in the
\* 'Contacted' row (level 1) only, besides the total: not in the 'Responded' row
\* (level 2) or after
C7_DeclinedCountsAsContacted ==
    pc = "analyzed" =>
        \A i \in 1..Len(expLeads) :
            expLeads[i].stage = "declined" => ExpectingShare(i) = <<1, 1, 0, 0, 0>>

\* the expecting-parent funnel was analysed on a declined lead and a lead that
\* responded
C7_Witness ==
    /\ pc = "analyzed"
    /\ \E i \in 1..Len(expLeads) : expLeads[i].stage = "declined"
    /\ \E i \in 1..Len(expLeads) : expLeads[i].stage = "pending_response"
    /\ Counts(expectingFunnel) = <<2, 2, 1, 0, 0>>

\* the first row of the funnel, after the first, with the lowest pctOfPrev
LowestStep(cf) ==
    CHOOSE i \in 2..Len(cf) :
        /\ \A j \in 2..Len(cf) : cf[i].pctOfPrev <= cf[j].pctOfPrev
        /\ \A j \in 2..(i - 1) : cf[j].pctOfPrev > cf[i].pctOfPrev

\* biggestDrop names the step into row i of the funnel
DropIsStep(drop, cf, i) ==
    /\ drop.from = cf[i - 1].stage
    /\ drop.to = cf[i].stage
    /\ drop.rate = cf[i].pctOfPrev

\* C26 (as claimed): biggestDrop of each analyzer is the step of cumulativeFunnel
\* with the lowest pctOfPrev, the earliest such step on a tie, for every input.
C26_BiggestDrop ==
    pc = "analyzed" =>
        /\ DropIsStep(registrationFunnel.biggestDrop, registrationFunnel.cumulativeFunnel,
                      LowestStep(registrationFunnel.cumulativeFunnel))
        /\ DropIsStep(expectingFunnel.biggestDrop, expectingFunnel.cumulativeFunnel,
                      LowestStep(expectingFunnel.cumulativeFunnel))

\* the number of records of the sequence that are in the stage (field f), have a
\* timestamp that is a date, and were submitted more than the number of days ago
StuckLonger(recs, f, stage, days) ==
    Cardinality({i \in 1..Len(recs) :
                    /\ recs[i][f] = stage
                    /\ NewDate(recs[i].timestamp) /= NaN
                    /\ clock - NewDate(recs[i].timestamp) > days * DAY})

\* C27 (as claimed): the stuck counts of analyzeRegistrationFunnel are the numbers
\* of submissions in not_contacted, left_message and pending_docs whose timestamp
\* parses and lies more than 14, 21 and 30 days before now; stuckCount of
\* analyzeExpectingFunnel is the number of leads in not_contacted or left_message
\* whose timestamp parses and lies more than 14 or 21 days before now, by any
\* excess.
C27_StuckRecords ==
    pc = "analyzed" =>
        /\ registrationFunnel.stuck =
              [notContacted14d |-> StuckLonger(submissions, "status", "not_contacted", 14),
               leftMessage21d |-> StuckLonger(submissions, "status", "left_message", 21),
               pendingDocs30d |-> StuckLonger(submissions, "status", "pending_docs", 30)]
        /\ expectingFunnel.stuckCount =
              StuckLonger(expLeads, "stage", "not_contacted", 14)
              + StuckLonger(expLeads, "stage", "left_message", 21)

\* the non-test submissions of an office
ActiveOf(o) ==
    LET mine(sub) == sub.status /= "test" /\ OfficeOf(sub) = o
    IN  SelectSeq(submissions, mine)

\* the sum of a field of byOffice over a set of offices
RECURSIVE SumOffices(_, _, _)
SumOffices(byOffice, offices, f) ==
    IF offices = {} THEN 0
    ELSE LET o == CHOOSE x \in offices : TRUE
         IN  byOffice[o][f] + SumOffices(byOffice, offices \ {o}, f)

\* C28: byOffice of analyzeRegistrationFunnel has one entry per office of the
\* non-test submissions; its total, contactAttempted, connected, docsReceived and
\* scheduled are the number of that office's non-test submissions and
\* countAtLevel(1), (2), (3), (5) on them; summed over the offices they equal total
\* and the counts of the rows Contact Attempted, Connected, Docs Received and
\* Scheduled of cumulativeFunnel
C28_OfficeBreakdown ==
    pc = "analyzed" =>
        LET byOffice == registrationFunnel.byOffice
            cf == registrationFunnel.cumulativeFunnel
            offices == DOMAIN byOffice
        IN  /\ offices = {OfficeOf(submissions[i]) :
                             i \in {j \in 1..Len(submissions) : submissions[j].status /= "test"}}
            /\ \A o \in offices :
                  /\ byOffice[o].total = Len(ActiveOf(o))
                  /\ byOffice[o].contactAttempted = CountAtLevel(ActiveOf(o), 1)
                  /\ byOffice[o].connected = CountAtLevel(ActiveOf(o), 2)
                  /\ byOffice[o].docsReceived = CountAtLevel(ActiveOf(o), 3)
                  /\ byOffice[o].scheduled = CountAtLevel(ActiveOf(o), 5)
            /\ SumOffices(byOffice, offices, "total") = registrationFunnel.total
            /\ SumOffices(byOffice, offices, "contactAttempted") = cf[2].count
            /\ SumOffices(byOffice, offices, "connected") = cf[3].count
            /\ SumOffices(byOffice, offices, "docsReceived") = cf[4].count
            /\ SumOffices(byOffice, offices, "scheduled") = cf[6].count

\* three submissions were analyzed: a declined one and one that was left a message
\* in one office, a test
C28_Witness ==
    /\ pc = "analyzed"
    /\ Len(submissions) = 3
    /\ \E i, j, k \in 1..3 :
          /\ submissions[i].status = "declined"
          /\ submissions[j].status = "left_message"
          /\ submissions[k].status = "test"
    /\ registrationFunnel.byOffice["Warren"].total = 2
    /\ registrationFunnel.byOffice["Warren"].contactAttempted = 2
    /\ registrationFunnel.byOffice["Warren"].connected = 1

----------------------------------------------------------------------------
(* Properties of normalizePhone *)

\* C8: normalizePhone("(908) 555-0134 ext 2") returns "9085550134"
C8_ExtensionYieldsTenDigitNumber ==
    pc = "normalized" /\ rawPhone = Chars("(908) 555-0134 ext 2")
        => normalized = Chars("9085550134")

----------------------------------------------------------------------------
(* Properties of the classifiers *)

\* the text of a call is blank: no cell, empty, or whitespace only
BlankArg(k) == Falsy(classifyArgs[k]) \/ Trim(classifyArgs[k]) = <<>>

\* the trimmed, lower-cased text of a call
LowerArg(k) == ToLowerCase(Trim(classifyArgs[k]))

\* C11: every call of classifyReferralSource, classifyFormStatus and
\* classifyExpectingLead, on a text or on no cell at all, returns a value of the
\* classifier's enum; a referral text that matches no rule gives 'unknown' and a
\* status text that matches no rule gives 'other'
C11_ClassifierTotality ==
    /\ pc = "referral" =>
          /\ classified \in ReferralChannels
          /\ (BlankArg(1) \/ MatchingRules(REFERRAL_RULES, LowerArg(1)) = <<>>)
                 => classified = "unknown"
    /\ pc = "formStatus" =>
          /\ classified \in FormStatuses
          /\ (/\ ~BlankArg(1)
              /\ MatchingRules(FORM_STATUS_RULES, LowerArg(1)) = <<>>
              /\ ~LeadingDate(LowerArg(1)))
                 => classified = "other"
    /\ pc = "expecting" => classified \in ExpectingStages

\* classifyReferralSource was called on a text that matches no rule
C11_Witness ==
    /\ pc = "referral"
    /\ classifyArgs = <<Text("mom group")>>
    /\ classified = "unknown"

\* the order of the categories of the referral rules
ReferralOrder ==
    <<"facebook_ad", "instagram", "employee_referral", "google_search",
      "email_marketing", "word_of_mouth", "website">>

\* the categories that have a term matching the text
MatchedCategories(t) ==
    {REFERRAL_RULES[k].category : k \in {j \in 1..Len(REFERRAL_RULES) :
                                            RuleMatches(REFERRAL_RULES[j], t)}}

\* C21: a call of classifyReferralSource on a non-blank text returns, among the
\* categories that have a term matching the lower-cased text, the one that comes
\* first in the order facebook_ad, instagram, employee_referral, google_search,
\* email_marketing, word_of_mouth, website; the lower-cased text is classified the
\* same; a text with 'staff' and 'friend', and one with 'marina hanna', matching
\* no ad/social term, gives employee_referral
C21_ReferralRuleOrder ==
    (pc = "referral" /\ ~BlankArg(1)) =>
        LET t == LowerArg(1)
            cats == MatchedCategories(t)
        IN  /\ cats /= {} =>
                  /\ classified \in cats
                  /\ \A c \in cats :
                        IndexOf(ReferralOrder, classified) <= IndexOf(ReferralOrder, c)
            /\ ClassifyReferralSource(ToLowerCase(classifyArgs[1])) = classified
            /\ (/\ cats \cap {"facebook_ad", "instagram"} = {}
                /\ \/ Includes(t, Text("staff")) /\ Includes(t, Text("friend"))
                   \/ Includes(t, Text("marina hanna")))
                  => classified = "employee_referral"

\* classifyReferralSource was called on a text with terms of two categories
C21_Witness ==
    /\ pc = "referral"
    /\ classifyArgs = <<Text("staff member and a friend")>>
    /\ MatchedCategories(LowerArg(1)) = {"employee_referral", "word_of_mouth"}
    /\ classified = "employee_referral"

\* C22 (as claimed): every value classifyFormStatus returns, other than 'test', is
\* a key of STAGE_LEVEL, and every value classifyExpectingLead returns is a key of
\* EXP_LEVEL.
C22_EveryStageHasLevel ==
    /\ (pc = "formStatus" /\ classified /= "test") => classified \in DOMAIN STAGE_LEVEL
    /\ pc = "expecting" => classified \in DOMAIN EXP_LEVEL

\* the trimmed text of an argument of the call, empty for no cell
TrimmedArg(k) == Trim(OrEmpty(classifyArgs[k]))

\* the text holds 'email sent' or 'pending'
PendingText(lower) == Includes(lower, Text("email sent")) \/ Includes(lower, Text("pending"))

\* C23: a call of classifyExpectingLead whose NPI text is 'declined' in any case
\* returns 'declined' whatever the appointment text; otherwise an NPI text that
\* parseDateLoose parses returns 'scheduled_upcoming' when the date is after now and
\* 'scheduled_past' when it is not; otherwise an NPI text holding 'email sent' or
\* 'pending' returns 'pending_response'; otherwise the NPI text 'no' returns
\* 'left_message'
C23_PrimaryPrecedence ==
    pc = "expecting" =>
        LET npi == TrimmedArg(1)
            lower == ToLowerCase(npi)
            d == ParseDateLooseChars(npi)
            isDeclined == lower = <<"d", "e", "c", "l", "i", "n", "e", "d">>
        IN  /\ isDeclined => classified = "declined"
            /\ (~isDeclined /\ d /= NaN) =>
                  classified = IF d > clock THEN "scheduled_upcoming" ELSE "scheduled_past"
            /\ (~isDeclined /\ d = NaN /\ PendingText(lower)) =>
                  classified = "pending_response"
            /\ (~isDeclined /\ d = NaN /\ ~PendingText(lower) /\ lower = <<"n", "o">>) =>
                  classified = "left_message"

\* classifyExpectingLead was called with 'Declined' in the NPI column and 'Not
\* scheduled' in the appointment column
C23_Witness ==
    /\ pc = "expecting"
    /\ classifyArgs = <<Text("Declined"), Text("Not scheduled")>>
    /\ classified = "declined"

\* C24: a call of classifyExpectingLead with a blank NPI text and a non-blank
\* appointment text returns 'contacted' when the appointment text is 'not
\* scheduled' in any case, and, when the part of it before the first '-' is parsed
\* by parseDateLoose, 'scheduled_upcoming' if that date is after now and
\* 'scheduled_past' if it is not; '01/20/2026- WRN' read on 19 January 2026 gives
\* 'scheduled_upcoming'
C24_SecondaryFallback ==
    (pc = "expecting" /\ TrimmedArg(1) = <<>> /\ TrimmedArg(2) /= <<>>) =>
        LET apt == TrimmedArg(2)
            notScheduled ==
                ToLowerCase(apt) = <<"n", "o", "t", " ", "s", "c", "h", "e", "d", "u", "l", "e", "d">>
            d == ParseDateLooseChars(Trim(Split(apt, {"-"})[1]))
        IN  /\ notScheduled => classified = "contacted"
            /\ (~notScheduled /\ d /= NaN) =>
                  classified = IF d > clock THEN "scheduled_upcoming" ELSE "scheduled_past"
            /\ (apt = Text("01/20/2026- WRN") /\ clock < 20 * DAY) =>
                  classified = "scheduled_upcoming"

\* classifyExpectingLead was called the day before 20 January with no NPI cell and
\* '01/20/2026- WRN' in the appointment cell
C24_Witness ==
    /\ pc = "expecting"
    /\ clock < 20 * DAY
    /\ classifyArgs = <<Undefined, Text("01/20/2026- WRN")>>
    /\ classified = "scheduled_upcoming"

\* a rule of classifyExpectingLead before the defaults classifies the call
EarlierRuleApplies ==
    LET npi == TrimmedArg(1)
        apt == TrimmedArg(2)
        lower == ToLowerCase(npi)
    IN  \/ lower = Text("declined")
        \/ ParseDateLooseChars(npi) /= NaN
        \/ PendingText(lower)
        \/ lower = Text("no")
        \/ /\ npi = <<>>
           /\ apt /= <<>>
           /\ \/ ToLowerCase(apt) = Text("not scheduled")
              \/ ParseDateLooseChars(Trim(Split(apt, {"-"})[1])) /= NaN

\* C25 (as claimed): a call of classifyExpectingLead with both texts blank returns
\* 'not_contacted'; a call that no earlier rule classifies and that has a
\* non-blank text, in the NPI or in the appointment column, returns 'other'.
C25_Defaults ==
    pc = "expecting" =>
        /\ (TrimmedArg(1) = <<>> /\ TrimmedArg(2) = <<>>) => classified = "not_contacted"
        /\ (~EarlierRuleApplies /\ ~(TrimmedArg(1) = <<>> /\ TrimmedArg(2) = <<>>))
              => classified = "other"

----------------------------------------------------------------------------
(* Properties of the clock *)

\* C29 (as claimed): all time-dependent decisions of a run are taken against one
\* value of the clock.
C29_SingleNow == Cardinality(nows) <= 1

====
